---- MODULE Spec2Model ----
(***************************************************************************)
(* Model of the ascii-motion image-to-glyph conversion                     *)
(* (src/src/lib/ascii.ts): imageToAsciiSvg, createAsciiSvgAnimation and    *)
(* their helpers.                                                          *)
(*                                                                         *)
(* Number representation.                                                  *)
(*  - The downscale step (scale = maxWidth / cols, floor(imgWidth*scale))  *)
(*    is computed in IEEE-754 binary64 as the JavaScript engine does:      *)
(*    53-bit significands, rounded to nearest, ties to even.               *)
(*  - Luminance 0.299r + 0.587g + 0.114b is kept exactly, in thousandths   *)
(*    (299r + 587g + 114b); sums, averages and the comparisons on them are *)
(*    done on exact fractions by cross-multiplication.                     *)
(*  - Text is a sequence of one-character strings.                         *)
(***************************************************************************)
EXTENDS Integers, Sequences, FiniteSets, TLC

\* ------------------------------------------------------------------------
\* Bounds of the model
\* ------------------------------------------------------------------------
MaxPixels == 3       \* canvases of at most this many pixels take every pixel combination
MaxNatWidth == 50    \* widest natural image width of the downscale specification
MaxFrames == 3       \* largest frameCount passed to createAsciiSvgAnimation
MaxCalls == 2        \* later calls of imageToAsciiSvg on the same image
MaxEvents == 3       \* user events on a component of the landing page

\* ------------------------------------------------------------------------
\* IEEE-754 binary64 arithmetic used by the downscale step.
\* A 53-bit significand is held in three limbs: hi * 2^36 + mid * 2^18 + lo
\* with mid, lo < 2^18; a double is [hi, mid, lo, exp], its value the
\* significand times 2^exp.  The operands of the downscale step are integers
\* below 2^12, which keeps every intermediate below 2^31.
\* ------------------------------------------------------------------------
RECURSIVE Pow2(_)
Pow2(n) == IF n <= 0 THEN 1 ELSE 2 * Pow2(n - 1)

Limb == Pow2(18)

RECURSIVE NormShift(_, _)
\* least k with a * 2^k >= b   (a >= 1)
NormShift(a, b) == IF a >= b THEN 0 ELSE 1 + NormShift(2 * a, b)

RECURSIVE BitLength(_)
BitLength(n) == IF n = 0 THEN 0 ELSE 1 + BitLength(n \div 2)

\* n + 1 on limbs
IncLimbs(n) ==
    IF n.lo + 1 < Limb THEN [n EXCEPT !.lo = n.lo + 1]
    ELSE IF n.mid + 1 < Limb THEN [n EXCEPT !.lo = 0, !.mid = n.mid + 1]
    ELSE [n EXCEPT !.lo = 0, !.mid = 0, !.hi = n.hi + 1]

\* floor(n / 2^s) on limbs, 0 <= s < 18
ShiftRight(n, s) ==
    LET d == Pow2(s)
        u == Pow2(18 - s)
    IN [ hi  |-> n.hi \div d,
         mid |-> (n.mid \div d) + (n.hi % d) * u,
         lo  |-> (n.lo \div d) + (n.mid % d) * u ]

\* round the exact value n * 2^exp, whose tail below n is nonzero when sticky
\* holds, to a 53-bit significand: to nearest, ties to even.  n has 53 + s
\* bits, 0 <= s < 18.  The result is left unnormalised when the increment
\* carries into bit 54, which denotes the same number.
RoundNearestEven(n, s, exp, sticky) ==
    LET kept  == ShiftRight(n, s)
        guard == IF s = 0 THEN 0 ELSE (n.lo \div Pow2(s - 1)) % 2
        rest  == sticky \/ (s > 1 /\ n.lo % Pow2(s - 1) # 0)
        up    == guard = 1 /\ (rest \/ kept.lo % 2 = 1)
        r     == IF up THEN IncLimbs(kept) ELSE kept
    IN [hi |-> r.hi, mid |-> r.mid, lo |-> r.lo, exp |-> exp + s]

\* the double nearest to a / c, for integers 0 < a < c  (JavaScript a / c)
FloatDiv(a, c) ==
    LET k  == NormShift(a, c)
        \* a * 2^k / c lies in [1, 2): its integer bit, then 3 x 18 quotient bits
        r0 == a * Pow2(k) - c
        d1 == (r0 * Limb) \div c
        r1 == (r0 * Limb) % c
        d2 == (r1 * Limb) \div c
        r2 == (r1 * Limb) % c
        d3 == (r2 * Limb) \div c
        r3 == (r2 * Limb) % c
        \* the 55-bit integer floor(a * 2^(k+54) / c), leading bit in hi
        q  == [hi |-> Limb + d1, mid |-> d2, lo |-> d3]
    IN RoundNearestEven(q, 2, -(54 + k), r3 > 0)

\* the double nearest to w * f, for an integer w >= 1  (JavaScript w * f)
FloatMulInt(w, f) ==
    LET t0 == w * f.lo
        t1 == w * f.mid + (t0 \div Limb)
        t2 == w * f.hi + (t1 \div Limb)
        p  == [hi |-> t2, mid |-> t1 % Limb, lo |-> t0 % Limb]
    IN RoundNearestEven(p, 36 + BitLength(t2) - 53, f.exp, FALSE)

\* Math.floor of a positive double below 2^17
FloatFloor(f) ==
    IF -f.exp >= 36 THEN f.hi \div Pow2(-f.exp - 36) ELSE -1

\* ------------------------------------------------------------------------
\* Character ramp and markup escaping
\* ------------------------------------------------------------------------
\* the grave accent character (U+0060), which cannot be written inside a
\* TLA+ string literal
Backtick == "grave"

\* ASCII_RAMP without its first character
ASCII_RAMP_Headless ==
    << "#", "%", "&", "$", "8", "B", "W", "M", "*", "o", "a", "h", "k",
       "b", "d", "p", "q", "w", "m", "Z", "O", "0", "Q", "L", "C", "J", "U",
       "Y", "X", "z", "c", "v", "u", "n", "x", "r", "j", "f", "t", "/", "|",
       "(", ")", "1", "{", "}", "[", "]", "?", "-", "_", "+", "~", "<", ">",
       "i", "!", "l", "I", ";", ":", ",", "\"", "^", Backtick, ".", " " >>

ASCII_RAMP ==
    << "@", "#", "%", "&", "$", "8", "B", "W", "M", "*", "o", "a", "h", "k",
       "b", "d", "p", "q", "w", "m", "Z", "O", "0", "Q", "L", "C", "J", "U",
       "Y", "X", "z", "c", "v", "u", "n", "x", "r", "j", "f", "t", "/", "|",
       "(", ")", "1", "{", "}", "[", "]", "?", "-", "_", "+", "~", "<", ">",
       "i", "!", "l", "I", ";", ":", ",", "\"", "^", Backtick, ".", " " >>

\* the copy of the ramp in scripts/convert-images.mjs
ASCII_RAMP_CLI ==
    << "@", "#", "%", "&", "$", "8", "B", "W", "M", "*", "o", "a", "h", "k",
       "b", "d", "p", "q", "w", "m", "Z", "O", "0", "Q", "L", "C", "J", "U",
       "Y", "X", "z", "c", "v", "u", "n", "x", "r", "j", "f", "t", "/", "|",
       "(", ")", "1", "{", "}", "[", "]", "?", "-", "_", "+", "~", "<", ">",
       "i", "!", "l", "I", ";", ":", ",", "\"", "^", Backtick, ".", " " >>

\* the copy of the ramp in the package's programmatic API
ASCII_RAMP_NODE ==
    << "@", "#", "%", "&", "$", "8", "B", "W", "M", "*", "o", "a", "h", "k",
       "b", "d", "p", "q", "w", "m", "Z", "O", "0", "Q", "L", "C", "J", "U",
       "Y", "X", "z", "c", "v", "u", "n", "x", "r", "j", "f", "t", "/", "|",
       "(", ")", "1", "{", "}", "[", "]", "?", "-", "_", "+", "~", "<", ">",
       "i", "!", "l", "I", ";", ":", ",", "\"", "^", Backtick, ".", " " >>

\* the ramp constant of a variant
RampOf(variant) ==
    CASE variant = "browser" -> ASCII_RAMP
      [] variant = "cli"     -> ASCII_RAMP_CLI
      [] variant = "node"    -> ASCII_RAMP_NODE

\* ASCII_RAMP.length
RampLength == Len(ASCII_RAMP)

\* ASCII_RAMP[i] for a 0-based index i; in range 0..RampLength-1, else undefined
Undefined == "undefined"
RampAt(i) == IF i \in 0..(RampLength - 1) THEN ASCII_RAMP[i + 1] ELSE Undefined

\* ASCII_RAMP.indexOf(ch): 0-based index of the first occurrence, or -1
indexOf(ch) ==
    IF \E i \in 1..RampLength : ASCII_RAMP[i] = ch
    THEN (CHOOSE i \in 1..RampLength :
             ASCII_RAMP[i] = ch /\ \A j \in 1..(i - 1) : ASCII_RAMP[j] # ch) - 1
    ELSE -1

\* XML_ESCAPE without its entry for "&"
XML_ESCAPE_NoAmp ==
    [ c \in {"<", ">", "\"", "'"} |->
        CASE c = "<"  -> <<"&", "l", "t", ";">>
          [] c = ">"  -> <<"&", "g", "t", ";">>
          [] c = "\"" -> <<"&", "q", "u", "o", "t", ";">>
          [] c = "'"  -> <<"&", "a", "p", "o", "s", ";">> ]

XML_ESCAPE ==
    [ c \in {"&", "<", ">", "\"", "'"} |->
        CASE c = "&"  -> <<"&", "a", "m", "p", ";">>
          [] c = "<"  -> <<"&", "l", "t", ";">>
          [] c = ">"  -> <<"&", "g", "t", ";">>
          [] c = "\"" -> <<"&", "q", "u", "o", "t", ";">>
          [] c = "'"  -> <<"&", "a", "p", "o", "s", ";">> ]

\* escapeXml without the lookup: the character is written as it is
escapeXmlIdentity(char) == <<char>>

\* XML_ESCAPE[char] ?? char, as the text written into the markup
escapeXml(char) == IF char \in DOMAIN XML_ESCAPE THEN XML_ESCAPE[char] ELSE <<char>>

\* ------------------------------------------------------------------------
\* Options
\* ------------------------------------------------------------------------
\* a fraction num/den, den > 0
Frac(n, d) == [num |-> n, den |-> d]

\* the value a non-numeric coverageThreshold converts to in a comparison
NotANumber == [num |-> 0, den |-> 0]

DefaultOptions ==
    [ cellWidth |-> 6, cellHeight |-> 9, maxWidth |-> 120, fontSize |-> 8,
      coverageThreshold |-> Frac(3, 10), color |-> "#d4d4d4",
      removeBackground |-> FALSE ]

\* the option o of the caller's object, or its destructuring default
Given(given, o, default) == IF o \in DOMAIN given THEN given[o] ELSE default

\* ActualCellHeight rounding cellWidth * 1.5 down
ActualCellHeightFloor(variant, given, cellWidth) ==
    IF variant = "browser"
    THEN Given(given, "cellHeight", 9)
    ELSE Given(given, "cellHeight", (3 * cellWidth) \div 2)

\* The cell height the variant uses: cellHeight = 9 in the browser variant
\* (ascii.ts line 58), cellHeight ?? Math.round(cellWidth * 1.5) in the Node
\* and command-line variants; Math.round rounds a half up.
ActualCellHeight(variant, given, cellWidth) ==
    IF variant = "browser"
    THEN Given(given, "cellHeight", 9)
    ELSE Given(given, "cellHeight", (3 * cellWidth + 1) \div 2)

\* The options a variant works with, defaults filled in.  The Node and
\* command-line variants have no removeBackground option.
ActualOptions(variant, given) ==
    LET cellWidth == Given(given, "cellWidth", 6)
    IN [ cellWidth |-> cellWidth,
         cellHeight |-> ActualCellHeight(variant, given, cellWidth),
         maxWidth |-> Given(given, "maxWidth", 120),
         fontSize |-> Given(given, "fontSize", 8),
         coverageThreshold |-> Given(given, "coverageThreshold", Frac(3, 10)),
         color |-> Given(given, "color", "#d4d4d4"),
         removeBackground |->
             IF variant = "browser" THEN Given(given, "removeBackground", FALSE)
             ELSE FALSE ]

\* ------------------------------------------------------------------------
\* Pixel buffers.  A buffer is a function from the pixel number
\* y * imgWidth + x (0-based) to an [r, g, b, a] record.
\* ------------------------------------------------------------------------
Px(r, g, b, a) == [r |-> r, g |-> g, b |-> b, a |-> a]

Min(a, b) == IF a < b THEN a ELSE b
Max(a, b) == IF a > b THEN a ELSE b
Abs(a) == IF a < 0 THEN -a ELSE a

RECURSIVE SumFn(_, _, _)
\* f[lo] + ... + f[hi]
SumFn(f, lo, hi) == IF lo > hi THEN 0 ELSE f[hi] + SumFn(f, lo, hi - 1)

\* the sum of g[<<x, y>>] over the rectangle x0..x1 by y0..y1 (inclusive)
SumRect(g, x0, x1, y0, y1) ==
    SumFn([y \in y0..y1 |-> SumFn([x \in x0..x1 |-> g[<<x, y>>]], x0, x1)], y0, y1)

\* 1000 * (0.299 r + 0.587 g + 0.114 b)
Lum(p) == 299 * p.r + 587 * p.g + 114 * p.b

\* ------------------------------------------------------------------------
\* imageToAsciiSvg, step by step
\* ------------------------------------------------------------------------
\* ScaledSize with the scale taken against the pixel width instead of the
\* column count
ScaledSizeByWidth(naturalWidth, naturalHeight, cellWidth, maxWidth) ==
    LET cols == naturalWidth \div cellWidth
    IN IF cols > maxWidth
       THEN LET scale == FloatDiv(maxWidth, naturalWidth)
            IN [ width  |-> FloatFloor(FloatMulInt(naturalWidth, scale)),
                 height |-> FloatFloor(FloatMulInt(naturalHeight, scale)) ]
       ELSE [width |-> naturalWidth, height |-> naturalHeight]

\* lines 70-77: the canvas size after the optional downscale.  With
\* cellWidth = 0 the column count imgWidth / 0 is Infinity, the scale
\* maxWidth / Infinity is 0 and both sizes become 0; a negative cellWidth
\* gives a negative column count and no downscale.
ScaledSize(naturalWidth, naturalHeight, cellWidth, maxWidth) ==
    IF cellWidth = 0 THEN [width |-> 0, height |-> 0]
    ELSE
    LET cols == naturalWidth \div cellWidth
    IN IF cols > maxWidth
       THEN LET scale == FloatDiv(maxWidth, cols)
            IN [ width  |-> FloatFloor(FloatMulInt(naturalWidth, scale)),
                 height |-> FloatFloor(FloatMulInt(naturalHeight, scale)) ]
       ELSE [width |-> naturalWidth, height |-> naturalHeight]

\* Math.round(total / count) for total >= 0, count > 0
RoundDiv(total, count) == (2 * total + count) \div (2 * count)

sampleBackgroundColor(pixels, imgWidth, imgHeight) ==
    LET edgeSize == Max(8, (Min(imgWidth, imgHeight) * 5) \div 100)
        OnEdge(x, y) == ~(x >= edgeSize /\ x < imgWidth - edgeSize
                          /\ y >= edgeSize /\ y < imgHeight - edgeSize)
        Sampled(c) == OnEdge(c[1], c[2]) /\ ~(pixels[c[2] * imgWidth + c[1]].a < 128)
        All == (0..(imgWidth - 1)) \X (0..(imgHeight - 1))
        Over(g) == SumRect(g, 0, imgWidth - 1, 0, imgHeight - 1)
        At(c) == pixels[c[2] * imgWidth + c[1]]
        totalR == Over([c \in All |-> IF Sampled(c) THEN At(c).r ELSE 0])
        totalG == Over([c \in All |-> IF Sampled(c) THEN At(c).g ELSE 0])
        totalB == Over([c \in All |-> IF Sampled(c) THEN At(c).b ELSE 0])
        count  == Over([c \in All |-> IF Sampled(c) THEN 1 ELSE 0])
    IN IF count = 0 THEN [r |-> 255, g |-> 255, b |-> 255]
       ELSE [ r |-> RoundDiv(totalR, count), g |-> RoundDiv(totalG, count),
              b |-> RoundDiv(totalB, count) ]

\* SuppressBackground clearing the pixels far from the background colour
\* instead of the near ones
SuppressBackgroundFar(pixels, imgWidth, imgHeight) ==
    LET bgColor == sampleBackgroundColor(pixels, imgWidth, imgHeight)
        threshold == 50
        Far(p) == LET dr == p.r - bgColor.r
                      dg == p.g - bgColor.g
                      db == p.b - bgColor.b
                  IN dr * dr + dg * dg + db * db >= threshold * threshold
    IN [ i \in DOMAIN pixels |->
           IF Far(pixels[i]) THEN [pixels[i] EXCEPT !.a = 0] ELSE pixels[i] ]

\* SuppressBackground writing transparent black over the near pixels
SuppressBackgroundToBlack(pixels, imgWidth, imgHeight) ==
    LET bgColor == sampleBackgroundColor(pixels, imgWidth, imgHeight)
        threshold == 50
        Near(p) == LET dr == p.r - bgColor.r
                       dg == p.g - bgColor.g
                       db == p.b - bgColor.b
                   IN dr * dr + dg * dg + db * db < threshold * threshold
    IN [ i \in DOMAIN pixels |->
           IF Near(pixels[i]) THEN [r |-> 0, g |-> 0, b |-> 0, a |-> 0] ELSE pixels[i] ]

\* SuppressBackground clearing the pixels at the threshold distance as well
SuppressBackgroundInclusive(pixels, imgWidth, imgHeight) ==
    LET bgColor == sampleBackgroundColor(pixels, imgWidth, imgHeight)
        threshold == 50
        Near(p) == LET dr == p.r - bgColor.r
                       dg == p.g - bgColor.g
                       db == p.b - bgColor.b
                   IN dr * dr + dg * dg + db * db <= threshold * threshold
    IN [ i \in DOMAIN pixels |->
           IF Near(pixels[i]) THEN [pixels[i] EXCEPT !.a = 0] ELSE pixels[i] ]

\* lines 88-100: the buffer after background suppression
SuppressBackground(pixels, imgWidth, imgHeight) ==
    LET bgColor == sampleBackgroundColor(pixels, imgWidth, imgHeight)
        threshold == 50
        Near(p) == LET dr == p.r - bgColor.r
                       dg == p.g - bgColor.g
                       db == p.b - bgColor.b
                   \* Math.sqrt(s) < 50 for an integer s exactly when s < 2500
                   IN dr * dr + dg * dg + db * db < threshold * threshold
    IN [ i \in DOMAIN pixels |->
           IF Near(pixels[i]) THEN [pixels[i] EXCEPT !.a = 0] ELSE pixels[i] ]

\* The mean luminance of the four corner cells, as [nan, num, den]: the value
\* is num / den thousandths; nan holds when a read fell outside the buffer
\* (pixels[idx] is undefined there and makes the sum NaN).
computeBackgroundBrightness(pixels, imgWidth, imgHeight, cellWidth, cellHeight) ==
    LET corners == << [x |-> 0, y |-> 0],
                      [x |-> imgWidth - cellWidth, y |-> 0],
                      [x |-> 0, y |-> imgHeight - cellHeight],
                      [x |-> imgWidth - cellWidth, y |-> imgHeight - cellHeight] >>
        n == imgWidth * imgHeight
        yHi(c) == Min(corners[c].y + cellHeight, imgHeight) - 1
        xLo(c) == Max(corners[c].x, 0)
        xHi(c) == Min(corners[c].x + cellWidth, imgWidth) - 1
        InBuf(p) == (p[2] * imgWidth + p[1]) \in 0..(n - 1)
        Read(c) == (xLo(c)..xHi(c)) \X (corners[c].y..yHi(c))
        Over(g) ==
            SumFn([c \in 1..4 |->
                     SumRect(g[c], xLo(c), xHi(c), corners[c].y, yHi(c))], 1, 4)
        total == Over([c \in 1..4 |-> [p \in Read(c) |->
                         IF InBuf(p) THEN Lum(pixels[p[2] * imgWidth + p[1]]) ELSE 0]])
        count == Over([c \in 1..4 |-> [p \in Read(c) |-> 1]])
        bad   == Over([c \in 1..4 |-> [p \in Read(c) |-> IF InBuf(p) THEN 0 ELSE 1]])
    IN IF count > 0
       THEN [nan |-> bad > 0, num |-> total, den |-> count]
       ELSE [nan |-> FALSE, num |-> 128000, den |-> 1]


\* CellStats counting every opaque pixel as covered, without the test against
\* the background brightness
CellStatsAnyOpaque(pixels, imgWidth, imgHeight, cellWidth, cellHeight, bgBrightness, row, col) ==
    LET startX == col * cellWidth
        startY == row * cellHeight
        yHi == Min(startY + cellHeight, imgHeight) - 1
        xHi == Min(startX + cellWidth, imgWidth) - 1
        Cell == (startX..xHi) \X (startY..yHi)
        At(c) == pixels[c[2] * imgWidth + c[1]]
        Over(g) == SumRect(g, startX, xHi, startY, yHi)
    IN [ totalBrightness |-> Over([c \in Cell |-> Lum(At(c))]),
         coveredPixels   |-> Over([c \in Cell |-> IF At(c).a > 128 THEN 1 ELSE 0]),
         totalPixels     |-> Over([c \in Cell |-> 1]) ]

\* CellStats with both comparisons of the coverage test inclusive
CellStatsInclusive(pixels, imgWidth, imgHeight, cellWidth, cellHeight, bgBrightness, row, col) ==
    LET startX == col * cellWidth
        startY == row * cellHeight
        yHi == Min(startY + cellHeight, imgHeight) - 1
        xHi == Min(startX + cellWidth, imgWidth) - 1
        Cell == (startX..xHi) \X (startY..yHi)
        At(c) == pixels[c[2] * imgWidth + c[1]]
        Over(g) == SumRect(g, startX, xHi, startY, yHi)
        Covered(p) == /\ p.a >= 128
                      /\ ~bgBrightness.nan
                      /\ Abs(Lum(p) * bgBrightness.den - bgBrightness.num)
                            >= 30000 * bgBrightness.den
    IN [ totalBrightness |-> Over([c \in Cell |-> Lum(At(c))]),
         coveredPixels   |-> Over([c \in Cell |-> IF Covered(At(c)) THEN 1 ELSE 0]),
         totalPixels     |-> Over([c \in Cell |-> 1]) ]

\* lines 114-139: the statistics of grid cell (row, col).  Every cell of the
\* grid lies inside the canvas, so totalPixels > 0.
CellStats(pixels, imgWidth, imgHeight, cellWidth, cellHeight, bgBrightness, row, col) ==
    LET startX == col * cellWidth
        startY == row * cellHeight
        yHi == Min(startY + cellHeight, imgHeight) - 1
        xHi == Min(startX + cellWidth, imgWidth) - 1
        Cell == (startX..xHi) \X (startY..yHi)
        At(c) == pixels[c[2] * imgWidth + c[1]]
        Over(g) == SumRect(g, startX, xHi, startY, yHi)
        \* a > 128 && Math.abs(brightness - bgBrightness) > 30
        Covered(p) == /\ p.a > 128
                      /\ ~bgBrightness.nan
                      /\ Abs(Lum(p) * bgBrightness.den - bgBrightness.num)
                            > 30000 * bgBrightness.den
    IN [ totalBrightness |-> Over([c \in Cell |-> Lum(At(c))]),
         coveredPixels   |-> Over([c \in Cell |-> IF Covered(At(c)) THEN 1 ELSE 0]),
         totalPixels     |-> Over([c \in Cell |-> 1]) ]

\* BelowThreshold with <= for <
BelowOrAtThreshold(st, coverageThreshold) ==
    st.coveredPixels * coverageThreshold.den <= coverageThreshold.num * st.totalPixels

\* coverage < coverageThreshold, with coverage = coveredPixels / totalPixels;
\* a comparison with NaN is false
BelowThreshold(st, coverageThreshold) ==
    /\ coverageThreshold # NotANumber
    /\ st.coveredPixels * coverageThreshold.den < coverageThreshold.num * st.totalPixels

\* RampIndex rounding to the nearest index instead of flooring
RampIndexRounded(totalBrightness, totalPixels) ==
    LET full == 255000 * totalPixels
        normalizedBrightness == Max(0, Min(full, totalBrightness))
    IN (2 * (full - normalizedBrightness) * (RampLength - 1) + full) \div (2 * full)

\* RampIndex scaled by the ramp length instead of the last index
RampIndexFullLength(totalBrightness, totalPixels) ==
    LET full == 255000 * totalPixels
        normalizedBrightness == Max(0, Min(full, totalBrightness))
    IN ((full - normalizedBrightness) * RampLength) \div full

\* lines 146-153: the ramp index of a cell whose luminances sum to
\* totalBrightness (thousandths) over totalPixels pixels
RampIndex(totalBrightness, totalPixels) ==
    LET full == 255000 * totalPixels
        normalizedBrightness == Max(0, Min(full, totalBrightness))
    IN ((full - normalizedBrightness) * (RampLength - 1)) \div full

\* lines 141-163: the glyph of cell (row, col) as a sequence of zero or one cells
CellGlyph(pixels, imgWidth, imgHeight, cellWidth, cellHeight, coverageThreshold, bgBrightness, row, col) ==
    LET st == CellStats(pixels, imgWidth, imgHeight, cellWidth, cellHeight,
                        bgBrightness, row, col)
        rampIndex == RampIndex(st.totalBrightness, st.totalPixels)
        char == RampAt(rampIndex)
    IN IF BelowThreshold(st, coverageThreshold) THEN <<>>
       ELSE IF char = " " THEN <<>>
       ELSE << [ char |-> char,
                 x |-> col * cellWidth,
                 y |-> row * cellHeight + cellHeight,
                 brightness |-> Frac(st.totalBrightness, st.totalPixels) ] >>

RECURSIVE RowCellsReversed(_, _, _, _, _, _, _, _, _, _)
\* RowCells walking the columns from right to left
RowCellsReversed(pixels, imgWidth, imgHeight, cellWidth, cellHeight, coverageThreshold, bgBrightness, gridCols, row, col) ==
    IF col >= gridCols THEN <<>>
    ELSE RowCellsReversed(pixels, imgWidth, imgHeight, cellWidth, cellHeight,
                          coverageThreshold, bgBrightness, gridCols, row, col + 1)
         \o CellGlyph(pixels, imgWidth, imgHeight, cellWidth, cellHeight,
                      coverageThreshold, bgBrightness, row, col)

RECURSIVE RowCells(_, _, _, _, _, _, _, _, _, _)
\* lines 113-164: the cells pushed by row `row` from column `col` on
RowCells(pixels, imgWidth, imgHeight, cellWidth, cellHeight, coverageThreshold, bgBrightness, gridCols, row, col) ==
    IF col >= gridCols THEN <<>>
    ELSE CellGlyph(pixels, imgWidth, imgHeight, cellWidth, cellHeight,
                   coverageThreshold, bgBrightness, row, col)
         \o RowCells(pixels, imgWidth, imgHeight, cellWidth, cellHeight,
                     coverageThreshold, bgBrightness, gridCols, row, col + 1)

RECURSIVE ScanCells(_, _, _, _, _, _, _, _, _, _)
\* lines 110-165: the cells pushed from row `row` on, in row-major order
ScanCells(pixels, imgWidth, imgHeight, cellWidth, cellHeight, coverageThreshold, bgBrightness, gridCols, gridRows, row) ==
    IF row >= gridRows THEN <<>>
    ELSE RowCells(pixels, imgWidth, imgHeight, cellWidth, cellHeight,
                  coverageThreshold, bgBrightness, gridCols, row, 0)
         \o ScanCells(pixels, imgWidth, imgHeight, cellWidth, cellHeight,
                      coverageThreshold, bgBrightness, gridCols, gridRows, row + 1)

\* BuildSvg writing the text elements last glyph first
BuildSvgReversed(svgWidth, svgHeight, fontSize, color, cells) ==
    [ width |-> svgWidth, height |-> svgHeight,
      viewBox |-> <<0, 0, svgWidth, svgHeight>>,
      fontSize |-> fontSize, fill |-> color,
      texts |-> [ i \in 1..Len(cells) |->
                    [x |-> cells[Len(cells) + 1 - i].x, y |-> cells[Len(cells) + 1 - i].y,
                     content |-> escapeXml(cells[Len(cells) + 1 - i].char)] ] ]

\* lines 171-178 and 214-221: the markup.  The document is kept as its parts:
\* the width, height and viewBox attributes, the style rule's font size and
\* fill, and one entry per <text> element with its x, y and text content.
BuildSvg(svgWidth, svgHeight, fontSize, color, cells) ==
    [ width |-> svgWidth, height |-> svgHeight,
      viewBox |-> <<0, 0, svgWidth, svgHeight>>,
      fontSize |-> fontSize, fill |-> color,
      texts |-> [ i \in 1..Len(cells) |->
                    [x |-> cells[i].x, y |-> cells[i].y,
                     content |-> escapeXml(cells[i].char)] ] ]

\* imageToAsciiSvg with the column count rounded up instead of down
imageToAsciiSvgCeilColumns(drawn, imgWidth, imgHeight, options) ==
    LET pixels == IF options.removeBackground
                  THEN SuppressBackground(drawn, imgWidth, imgHeight)
                  ELSE drawn
        gridCols == (imgWidth + options.cellWidth - 1) \div options.cellWidth
        gridRows == imgHeight \div options.cellHeight
        bgBrightness == computeBackgroundBrightness(
                            pixels, imgWidth, imgHeight,
                            options.cellWidth, options.cellHeight)
        cells == ScanCells(pixels, imgWidth, imgHeight, options.cellWidth,
                           options.cellHeight, options.coverageThreshold,
                           bgBrightness, gridCols, gridRows, 0)
        svgWidth == gridCols * options.cellWidth
        svgHeight == gridRows * options.cellHeight
    IN [ pixels |-> pixels,
         result |-> [ svg |-> BuildSvg(svgWidth, svgHeight, options.fontSize,
                                       options.color, cells),
                      cells |-> cells,
                      svgWidth |-> svgWidth, svgHeight |-> svgHeight,
                      gridCols |-> gridCols, gridRows |-> gridRows ] ]

\* lines 86-181, from the buffer getImageData returned: the buffer as the scan
\* reads it and the returned AsciiSvgResult
imageToAsciiSvg(drawn, imgWidth, imgHeight, options) ==
    LET pixels == IF options.removeBackground
                  THEN SuppressBackground(drawn, imgWidth, imgHeight)
                  ELSE drawn
        gridCols == imgWidth \div options.cellWidth
        gridRows == imgHeight \div options.cellHeight
        bgBrightness == computeBackgroundBrightness(
                            pixels, imgWidth, imgHeight,
                            options.cellWidth, options.cellHeight)
        cells == ScanCells(pixels, imgWidth, imgHeight, options.cellWidth,
                           options.cellHeight, options.coverageThreshold,
                           bgBrightness, gridCols, gridRows, 0)
        svgWidth == gridCols * options.cellWidth
        svgHeight == gridRows * options.cellHeight
    IN [ pixels |-> pixels,
         result |-> [ svg |-> BuildSvg(svgWidth, svgHeight, options.fontSize,
                                       options.color, cells),
                      cells |-> cells,
                      svgWidth |-> svgWidth, svgHeight |-> svgHeight,
                      gridCols |-> gridCols, gridRows |-> gridRows ] ]


\* ------------------------------------------------------------------------
\* The Node variant (the package's programmatic API): XML_ESCAPE, escapeXml,
\* computeBackgroundBrightness and imageToAsciiSvg of that file, from the raw
\* RGBA buffer sharp returns on
\* ------------------------------------------------------------------------
XML_ESCAPE_NODE ==
    [ c \in {"&", "<", ">", "\"", "'"} |->
        CASE c = "&"  -> <<"&", "a", "m", "p", ";">>
          [] c = "<"  -> <<"&", "l", "t", ";">>
          [] c = ">"  -> <<"&", "g", "t", ";">>
          [] c = "\"" -> <<"&", "q", "u", "o", "t", ";">>
          [] c = "'"  -> <<"&", "a", "p", "o", "s", ";">> ]

\* XML_ESCAPE[char] ?? char
escapeXmlNode(char) ==
    IF char \in DOMAIN XML_ESCAPE_NODE THEN XML_ESCAPE_NODE[char] ELSE <<char>>

\* the positions <<x, y>> one corner's loops visit: y from corner.y while
\* y < corner.y + cellHeight and y < imgHeight, x likewise, x < 0 skipped
NodeCornerReads(corner, imgWidth, imgHeight, cellWidth, cellHeight) ==
    { p \in (Max(corner.x, 0)..(Min(corner.x + cellWidth, imgWidth) - 1))
              \X (corner.y..(Min(corner.y + cellHeight, imgHeight) - 1)) : TRUE }

RECURSIVE NodeLumSum(_, _, _)
\* the luminances (thousandths) of the buffer at the positions S, summed
NodeLumSum(pixels, imgWidth, S) ==
    IF S = {} THEN 0
    ELSE LET p == CHOOSE q \in S : TRUE
         IN Lum(pixels[p[2] * imgWidth + p[1]]) + NodeLumSum(pixels, imgWidth, S \ {p})

\* computeBackgroundBrightnessNode sampling the top left corner only
computeBackgroundBrightnessNodeTopLeft(pixels, imgWidth, imgHeight, cellWidth, cellHeight) ==
    LET reads == NodeCornerReads([x |-> 0, y |-> 0], imgWidth, imgHeight,
                                 cellWidth, cellHeight)
        inside == { p \in reads : (p[2] * imgWidth + p[1]) \in DOMAIN pixels }
    IN IF Cardinality(reads) > 0
       THEN [ nan |-> inside # reads,
              num |-> NodeLumSum(pixels, imgWidth, inside),
              den |-> Cardinality(reads) ]
       ELSE [nan |-> FALSE, num |-> 128000, den |-> 1]

\* computeBackgroundBrightness of the Node variant, as [nan, num, den]
computeBackgroundBrightnessNode(pixels, imgWidth, imgHeight, cellWidth, cellHeight) ==
    LET corners == << [x |-> 0, y |-> 0],
                      [x |-> imgWidth - cellWidth, y |-> 0],
                      [x |-> 0, y |-> imgHeight - cellHeight],
                      [x |-> imgWidth - cellWidth, y |-> imgHeight - cellHeight] >>
        reads(c) == NodeCornerReads(corners[c], imgWidth, imgHeight, cellWidth, cellHeight)
        inside(c) == { p \in reads(c) : (p[2] * imgWidth + p[1]) \in DOMAIN pixels }
        total == SumFn([c \in 1..4 |-> NodeLumSum(pixels, imgWidth, inside(c))], 1, 4)
        count == SumFn([c \in 1..4 |-> Cardinality(reads(c))], 1, 4)
    IN IF count > 0
       THEN [ nan |-> \E c \in 1..4 : inside(c) # reads(c),
              num |-> total, den |-> count ]
       ELSE [nan |-> FALSE, num |-> 128000, den |-> 1]

\* the body of the row/column loops for cell k of the row-major scan: the
\* cell pushed to cellList, as a sequence of zero or one cells
NodeCell(pixels, imgWidth, imgHeight, cellWidth, actualCellHeight, coverageThreshold, bgBrightness, gridCols, k) ==
    LET row == k \div gridCols
        col == k % gridCols
        startX == col * cellWidth
        startY == row * actualCellHeight
        cell == (startX..(Min(startX + cellWidth, imgWidth) - 1))
                    \X (startY..(Min(startY + actualCellHeight, imgHeight) - 1))
        At(p) == pixels[p[2] * imgWidth + p[1]]
        totalBrightness == NodeLumSum(pixels, imgWidth, cell)
        totalPixels == Cardinality(cell)
        coveredPixels ==
            Cardinality({ p \in cell :
                /\ At(p).a > 128
                /\ ~bgBrightness.nan
                /\ Abs(Lum(At(p)) * bgBrightness.den - bgBrightness.num)
                       > 30000 * bgBrightness.den })
        tooLittle == /\ coverageThreshold # NotANumber
                     /\ coveredPixels * coverageThreshold.den
                           < coverageThreshold.num * totalPixels
        normalizedBrightness == Max(0, Min(255000 * totalPixels, totalBrightness))
        rampIndex == ((255000 * totalPixels - normalizedBrightness)
                          * (Len(ASCII_RAMP_NODE) - 1)) \div (255000 * totalPixels)
        char == ASCII_RAMP_NODE[rampIndex + 1]
    IN IF tooLittle \/ char = " " THEN <<>>
       ELSE << [ char |-> char, x |-> startX, y |-> startY + actualCellHeight,
                 brightness |-> Frac(totalBrightness, totalPixels) ] >>

RECURSIVE NodeCellList(_, _, _, _, _, _, _, _, _)
\* cellList after the cells 0 .. k - 1 of the row-major scan
NodeCellList(pixels, imgWidth, imgHeight, cellWidth, actualCellHeight, coverageThreshold, bgBrightness, gridCols, k) ==
    IF k = 0 THEN <<>>
    ELSE NodeCellList(pixels, imgWidth, imgHeight, cellWidth, actualCellHeight,
                      coverageThreshold, bgBrightness, gridCols, k - 1)
         \o NodeCell(pixels, imgWidth, imgHeight, cellWidth, actualCellHeight,
                     coverageThreshold, bgBrightness, gridCols, k - 1)

\* imageToAsciiSvg of the Node variant from the buffer on: what it returns,
\* { svg, cells: cellList.length, gridCols, gridRows }
imageToAsciiSvgNode(pixels, imgWidth, imgHeight, options) ==
    LET gridCols == imgWidth \div options.cellWidth
        gridRows == imgHeight \div options.cellHeight
        bgBrightness == computeBackgroundBrightnessNode(
                            pixels, imgWidth, imgHeight,
                            options.cellWidth, options.cellHeight)
        cellList == NodeCellList(pixels, imgWidth, imgHeight, options.cellWidth,
                                 options.cellHeight, options.coverageThreshold,
                                 bgBrightness, gridCols, gridRows * gridCols)
        svgWidth == gridCols * options.cellWidth
        svgHeight == gridRows * options.cellHeight
    IN [ svg |-> [ width |-> svgWidth, height |-> svgHeight,
                   viewBox |-> <<0, 0, svgWidth, svgHeight>>,
                   fontSize |-> options.fontSize, fill |-> options.color,
                   texts |-> [ i \in 1..Len(cellList) |->
                                 [ x |-> cellList[i].x, y |-> cellList[i].y,
                                   content |-> escapeXmlNode(cellList[i].char) ] ] ],
         cells |-> Len(cellList),
         gridCols |-> gridCols, gridRows |-> gridRows ]

\* ------------------------------------------------------------------------
\* createAsciiSvgAnimation
\* ------------------------------------------------------------------------
\* The random draws for one glyph of one frame: hit is Math.random() < 0.15,
\* shift is Math.floor(Math.random() * 3) - 1, drawn only after a hit
Draws == {[hit |-> FALSE, shift |-> 0]} \cup {[hit |-> TRUE, shift |-> d] : d \in {-1, 0, 1}}

\* PerturbCell without the test for the blank character
PerturbCellNoBlankCheck(cell, draw) ==
    IF draw.hit
    THEN LET currentIdx == indexOf(cell.char)
         IN IF currentIdx >= 0
            THEN [cell EXCEPT !.char =
                     RampAt(Max(0, Min(RampLength - 1, currentIdx + draw.shift)))]
            ELSE cell
    ELSE cell

\* lines 195-212: the callback of baseResult.cells.map
PerturbCell(cell, draw) ==
    IF draw.hit
    THEN LET currentIdx == indexOf(cell.char)
         IN IF currentIdx >= 0
            THEN LET shift == draw.shift
                     newIdx == Max(0, Min(RampLength - 1, currentIdx + shift))
                     newChar == RampAt(newIdx)
                 IN IF newChar # " " THEN [cell EXCEPT !.char = newChar] ELSE cell
            ELSE cell
    ELSE cell

\* AnimationFrame keeping only the glyphs that were hit (filter for map)
AnimationFrameFilter(baseResult, fontSize, color, draws, f) ==
    LET hit == SelectSeq([i \in 1..Len(baseResult.cells) |-> i],
                         LAMBDA i : draws[f][i].hit)
        newCells == [ j \in 1..Len(hit) |->
                        PerturbCell(baseResult.cells[hit[j]], draws[f][hit[j]]) ]
    IN BuildSvg(baseResult.svgWidth, baseResult.svgHeight, fontSize, color, newCells)

RECURSIVE DriftedCell(_, _, _, _)
\* glyph i after the draws of iterations 1..f applied one after another
DriftedCell(baseResult, draws, f, i) ==
    IF f = 0 THEN baseResult.cells[i]
    ELSE PerturbCell(DriftedCell(baseResult, draws, f - 1, i), draws[f][i])

\* AnimationFrame perturbing the previous frame's glyphs instead of the base's
AnimationFrameFromPrevious(baseResult, fontSize, color, draws, f) ==
    LET newCells == [ i \in 1..Len(baseResult.cells) |->
                        DriftedCell(baseResult, draws, f, i) ]
    IN BuildSvg(baseResult.svgWidth, baseResult.svgHeight, fontSize, color, newCells)

\* lines 194-223: the frame pushed by iteration f, given all frames' draws
AnimationFrame(baseResult, fontSize, color, draws, f) ==
    LET newCells == [ i \in 1..Len(baseResult.cells) |->
                        PerturbCell(baseResult.cells[i], draws[f][i]) ]
    IN BuildSvg(baseResult.svgWidth, baseResult.svgHeight, fontSize, color, newCells)

\* createAsciiSvgAnimation rebuilding frame 0 with the style overrides
createAsciiSvgAnimationRestyled(baseResult, frameCount, fontSize, color, draws) ==
    <<BuildSvg(baseResult.svgWidth, baseResult.svgHeight, fontSize, color,
               baseResult.cells)>> \o
    [ f \in 1..(frameCount - 1) |-> AnimationFrame(baseResult, fontSize, color, draws, f) ]

\* lines 186-226; draws[f][i] is the draw for glyph i in iteration f
createAsciiSvgAnimation(baseResult, frameCount, fontSize, color, draws) ==
    <<baseResult.svg>> \o
    [ f \in 1..(frameCount - 1) |-> AnimationFrame(baseResult, fontSize, color, draws, f) ]


\* ------------------------------------------------------------------------
\* Inputs
\* ------------------------------------------------------------------------
Black    == Px(0, 0, 0, 255)
White    == Px(255, 255, 255, 255)
Gray242  == Px(242, 242, 242, 255)    \* luminance of ramp index 3, "&"
Gray2    == Px(2, 2, 2, 255)          \* luminance of ramp index 66, "."
Clear    == Px(0, 0, 0, 0)            \* a fully transparent pixel
Tint     == Px(22, 43, 8, 255)        \* luminance 32.731, at distance 48.96 from black

ConvPalette == {Black, White, Gray242, Clear}
AnimPalette == {White, Gray242, Gray2}
ScalePalette == {Black, White}
CallPalette == {Black, White, Tint}
\* Pixels on either side of the two comparisons of the coverage test.  The
\* binary64 luminance 0.299 r + 0.587 g + 0.114 b of each of these greys is
\* the integer itself, and the corner cells hold a power of two of pixels, so
\* the thousandths of Lum are the values the code compares.
Gray135   == Px(135, 135, 135, 255)
Gray165   == Px(165, 165, 165, 255)
Gray166   == Px(166, 166, 166, 255)
HalfWhite == Px(255, 255, 255, 128)   \* alpha exactly 128
Veil129   == Px(255, 255, 255, 129)   \* alpha 129
\* colours at distance exactly 50 and 75 from black
Edge50 == Px(30, 40, 0, 255)
Edge75 == Px(45, 60, 0, 255)
SuppressPalette == {Black, Tint, Edge50, Edge75, HalfWhite}
NearBlack == Px(0, 0, 1, 255)         \* luminance 0.114, the least above 0
BlankPalette == {Black, NearBlack, White, Clear}
Gray100 == Px(100, 100, 100, 255)
Red120  == Px(120, 0, 0, 255)         \* luminance 35.88, near Tint's, colour far from it
RemovalPalette == {Black, Tint, Gray100, Red120, Clear}
CoveragePalette == {Black, Gray135, Gray165, Gray166, HalfWhite, Veil129}

\* a w x h buffer split into four quadrants of one colour each
QuadrantImage(w, h, q) ==
    [ i \in 0..(w * h - 1) |->
        q[(IF (i \div w) < (h \div 2) THEN 0 ELSE 2) + (IF (i % w) < (w \div 2) THEN 1 ELSE 2)] ]

\* the width of the band sampleBackgroundColor reads along the edges
EdgeSize(w, h) == Max(8, (Min(w, h) * 5) \div 100)

\* a w x h buffer of colour b on the edge band and colour c inside it
BorderedImage(w, h, b, c) ==
    [ i \in 0..(w * h - 1) |->
        IF /\ (i % w) >= EdgeSize(w, h) /\ (i % w) < w - EdgeSize(w, h)
           /\ (i \div w) >= EdgeSize(w, h) /\ (i \div w) < h - EdgeSize(w, h)
        THEN c ELSE b ]

\* The buffers the canvas may hand over for a w x h canvas: every pixel
\* combination over the palette for small canvases, and for larger ones the
\* flat images, the black/white quadrant images and, where the edge band
\* leaves an interior, the bordered images.
CanvasPixels(w, h, palette) ==
    IF w * h <= MaxPixels
    THEN [0..(w * h - 1) -> palette]
    ELSE { [i \in 0..(w * h - 1) |-> c] : c \in palette }
         \cup { QuadrantImage(w, h, q) : q \in [1..4 -> {Black, White}] }
         \cup { BorderedImage(w, h, b, c) : b \in palette, c \in palette }

Thresholds == {Frac(0, 1), Frac(3, 10), Frac(1, 1)}

SmallOptions(cellWidths, cellHeights, maxWidths, thresholds, removals) ==
    { [DefaultOptions EXCEPT !.cellWidth = cw, !.cellHeight = ch, !.maxWidth = mw,
                             !.coverageThreshold = t, !.removeBackground = rb] :
        cw \in cellWidths, ch \in cellHeights, mw \in maxWidths,
        t \in thresholds, rb \in removals }

ConvSizes ==
    { d \in (1..MaxPixels) \X (1..MaxPixels) : d[1] * d[2] <= MaxPixels }
        \cup {<<2, 2>>}
ConvOptions ==
    SmallOptions(1..2, 1..2, {120}, Thresholds, {FALSE})
        \cup SmallOptions(1..2, 1..2, {120}, {Frac(3, 10)}, {TRUE})
        \cup SmallOptions({1}, {1}, {1}, {Frac(3, 10)}, BOOLEAN)
        \cup SmallOptions({2}, {1}, {120}, {Frac(1, 2)}, {FALSE})
        \cup {DefaultOptions}

\* a 2 x 2 grid of default-sized cells
GridSizes == {<<12, 18>>}
GridOptions == SmallOptions({6}, {9}, {1, 120}, Thresholds, BOOLEAN)

ScaleSizes == { <<w, w>> : w \in 1..MaxNatWidth }
ScaleOptions == SmallOptions(1..2, {1}, 1..3, {Frac(3, 10)}, {FALSE})

\* a 3 x 3 grid of 8 x 8 cells whose centre cell is the interior of the
\* edge band
CallSizes == {<<24, 24>>}
CallOptions == SmallOptions({8}, {8}, {120}, {Frac(0, 1), Frac(3, 10)}, BOOLEAN)

\* configurations outside the caller contract: a cell dimension that is
\* zero or negative, or a coverageThreshold that is not a number
InvalidSizes == {<<1, 1>>, <<2, 1>>, <<2, 2>>}
InvalidOptions ==
    { o \in SmallOptions(-2..1, -1..1, {120}, {Frac(3, 10), NotANumber}, BOOLEAN) :
        o.cellWidth <= 0 \/ o.cellHeight <= 0 \/ o.coverageThreshold = NotANumber }

\* the three copies of imageToAsciiSvg: src/lib/ascii.ts (browser), the
\* package's programmatic API (node) and scripts/convert-images.mjs (cli)
Variants == {"browser", "node", "cli"}

\* options objects that leave keys out.  The command line always passes
\* cellWidth and never cellHeight (convert-images.mjs lines 195-201).
VariantSizes == {<<3, 10>>}
VariantGiven ==
    { [cellWidth |-> cw] : cw \in 1..3 }
        \cup { [cellWidth |-> cw, cellHeight |-> ch] : cw \in 1..3, ch \in {2, 5} }
VariantDefaultGiven == { <<>>, [cellWidth |-> 6] }

\* buffers handed to the two background estimators, zero-area ones included
EstimateSizes == (0..2) \X (0..2)
EstimateOptions == SmallOptions(1..2, 1..2, {120}, {Frac(3, 10)}, {FALSE})

\* one row or one column of cells, the middle one outside the corner cells
CoverageSizes == {<<3, 1>>, <<1, 3>>, <<2, 1>>}
CoverageOptions == SmallOptions(1..2, 1..2, {120}, {Frac(3, 10), Frac(1, 1)}, {FALSE})

\* a row of three pixels, all of them in the edge band
SuppressSizes == {<<3, 1>>}
SuppressOptions == SmallOptions({1}, {1}, {120}, {Frac(3, 10)}, BOOLEAN)

\* a row of three one-pixel cells, all of them in the edge band
RemovalSizes == {<<3, 1>>}
RemovalOptions == SmallOptions({1}, {1}, {120}, {Frac(0, 1), Frac(3, 10)}, BOOLEAN)

\* cells of one and two pixels
BlankSizes == {<<3, 1>>, <<2, 1>>, <<1, 2>>, <<1, 3>>}
BlankOptions == SmallOptions(1..2, 1..2, {120}, {Frac(0, 1), Frac(3, 10)}, {FALSE})

NodeSizes == {<<3, 1>>, <<1, 3>>, <<2, 2>>}
NodeOptions == SmallOptions(1..2, 1..2, {120}, Thresholds, BOOLEAN)

AnimSizes == {<<1, 1>>, <<2, 1>>}
AnimOptions == SmallOptions({1}, {1}, {120}, {Frac(3, 10)}, {FALSE})

AnimStyles == { [fontSize |-> 8, color |-> "#d4d4d4"], [fontSize |-> 12, color |-> "#00ff00"] }

\* ------------------------------------------------------------------------
\* State
\* ------------------------------------------------------------------------
VARIABLES
    pc,         \* "start", "converted", "threw", "diverged", "animated" or
                \* "estimated"
    palette,    \* the pixel values the decoded image may contain
    image,      \* [naturalWidth, naturalHeight] of the HTMLImageElement
    options,    \* the AsciiOptions of the call, defaults filled in
    canvas,     \* [width, height, drawn, pixels]: the canvas size, the buffer
                \* getImageData returned and the buffer after suppression
    result,     \* the AsciiSvgResult returned by imageToAsciiSvg
    animArgs,   \* [frameCount, fontSize, color] of createAsciiSvgAnimation
    draws,      \* the outcomes of Math.random() during createAsciiSvgAnimation
    frames,     \* the frames returned by createAsciiSvgAnimation
    calls,      \* the later calls of imageToAsciiSvg on the same image, each
                \* [options, width, height, pixels, result]
    caller      \* [variant, given]: the variant of imageToAsciiSvg that is
                \* called ("browser", "node" or "cli") and the options
                \* object the caller passes, absent keys left out
VARIABLES
    node,       \* what the Node variant of imageToAsciiSvg returned for the
                \* buffer and options of the browser call
    tryIt,      \* the TryItSection component: its React state, the file
                \* reads and image loads in flight and its interval timer
    hero        \* the HeroAsciiDemo component: its props, state and refs,
                \* the fetch in flight and its interval timer

vars == <<pc, palette, image, options, canvas, result, animArgs, draws, frames, calls, caller,
          node, tryIt, hero>>

NoValue == [none |-> TRUE]

InitWith(sizes, optionSet, pal) ==
    /\ pc = "start"
    /\ palette = pal
    /\ \E d \in sizes : image = [naturalWidth |-> d[1], naturalHeight |-> d[2]]
    /\ options \in optionSet
    /\ canvas = NoValue
    /\ result = NoValue
    /\ animArgs = NoValue
    /\ draws = <<>>
    /\ frames = <<>>
    /\ calls = <<>>
    /\ caller = [variant |-> "browser", given |-> options]
    /\ node = NoValue
    /\ tryIt = NoValue
    /\ hero = NoValue

Init ==
    \/ InitWith(ConvSizes, ConvOptions, ConvPalette)
    \/ InitWith(GridSizes, GridOptions, ConvPalette)
InitScale == InitWith(ScaleSizes, ScaleOptions, ScalePalette)
InitAnim == InitWith(AnimSizes, AnimOptions, AnimPalette)
InitCalls == InitWith(CallSizes, CallOptions, CallPalette)
InitInvalid == InitWith(InvalidSizes, InvalidOptions, ScalePalette)
InitEstimate == InitWith(EstimateSizes, EstimateOptions, ScalePalette)
InitSuppress ==
    \/ InitWith(SuppressSizes, SuppressOptions, SuppressPalette)
    \/ InitWith(CallSizes, CallOptions, SuppressPalette)
InitNode ==
    \/ InitWith(NodeSizes, NodeOptions, ConvPalette)
    \/ InitWith(GridSizes, GridOptions, ConvPalette)
InitRemoval == InitWith(RemovalSizes, RemovalOptions, RemovalPalette)
InitBlank == InitWith(BlankSizes, BlankOptions, BlankPalette)
InitCoverage == InitWith(CoverageSizes, CoverageOptions, CoveragePalette)

InitVariantsWith(sizes, givenSet) ==
    /\ pc = "start"
    /\ palette = ScalePalette
    /\ \E d \in sizes : image = [naturalWidth |-> d[1], naturalHeight |-> d[2]]
    /\ \E v \in Variants, g \in givenSet :
          /\ (v = "cli" => "cellHeight" \notin DOMAIN g)
          /\ caller = [variant |-> v, given |-> g]
    /\ node = NoValue
    /\ tryIt = NoValue
    /\ hero = NoValue
    /\ options = NoValue
    /\ canvas = NoValue
    /\ result = NoValue
    /\ animArgs = NoValue
    /\ draws = <<>>
    /\ frames = <<>>
    /\ calls = <<>>

InitVariants ==
    \/ InitVariantsWith(VariantSizes, VariantGiven)
    \/ InitVariantsWith(GridSizes, VariantDefaultGiven)

\* One call of imageToAsciiSvg(img, options).  getImageData throws an
\* IndexSizeError for a canvas of zero width or height (line 83).  With
\* cellHeight = 0 the row count imgHeight / 0 is Infinity and the loop of
\* line 112 has no last row: the call does not return.
ConvertWith(opts) ==
    /\ pc = "start"
    /\ LET size == ScaledSize(image.naturalWidth, image.naturalHeight,
                              opts.cellWidth, opts.maxWidth)
       IN IF size.width = 0 \/ size.height = 0
          THEN /\ pc' = "threw"
               /\ canvas' = [width |-> size.width, height |-> size.height,
                             drawn |-> <<>>, pixels |-> <<>>]
               /\ result' = NoValue
          ELSE IF opts.cellHeight = 0
          THEN /\ pc' = "diverged"
               /\ canvas' = [width |-> size.width, height |-> size.height,
                             drawn |-> <<>>, pixels |-> <<>>]
               /\ result' = NoValue
          ELSE \E drawn \in CanvasPixels(size.width, size.height, palette) :
                  LET out == imageToAsciiSvg(drawn, size.width, size.height, opts)
                  IN /\ pc' = "converted"
                     /\ canvas' = [width |-> size.width, height |-> size.height,
                                   drawn |-> drawn, pixels |-> out.pixels]
                     /\ result' = out.result
    /\ options' = opts
    /\ UNCHANGED <<palette, image, animArgs, draws, frames, calls, caller, node, tryIt, hero>>

\* the call with every option given
Convert == ConvertWith(options)

\* the call of one of the variants with the caller's options object: the
\* destructuring defaults are filled in first
ConvertVariant == ConvertWith(ActualOptions(caller.variant, caller.given))

\* One call of createAsciiSvgAnimation(result, frameCount, {fontSize, color})
Animate ==
    /\ pc = "converted"
    /\ \E frameCount \in 0..MaxFrames, style \in AnimStyles :
         \E random \in [1..(frameCount - 1) -> [1..Len(result.cells) -> Draws]] :
            /\ animArgs' = [frameCount |-> frameCount, fontSize |-> style.fontSize,
                            color |-> style.color]
            /\ draws' = random
            /\ frames' = createAsciiSvgAnimation(result, frameCount, style.fontSize,
                                                 style.color, random)
    /\ pc' = "animated"
    /\ UNCHANGED <<palette, image, options, canvas, result, calls, caller, node, tryIt, hero>>

\* Reconvert reading the buffer the previous call left behind instead of a
\* fresh getImageData copy
ReconvertSharedBuffer ==
    /\ pc = "converted"
    /\ Len(calls) < MaxCalls
    /\ \E removeBackground \in BOOLEAN :
         LET opts == [options EXCEPT !.removeBackground = removeBackground]
             size == ScaledSize(image.naturalWidth, image.naturalHeight,
                                opts.cellWidth, opts.maxWidth)
             left == IF calls = <<>> THEN canvas.pixels ELSE calls[Len(calls)].pixels
             out == imageToAsciiSvg(left, size.width, size.height, opts)
         IN calls' = Append(calls, [ options |-> opts, width |-> size.width,
                                     height |-> size.height, pixels |-> out.pixels,
                                     result |-> out.result ])
    /\ UNCHANGED <<pc, palette, image, options, canvas, result, animArgs, draws, frames, caller, node, tryIt, hero>>

\* A later call of imageToAsciiSvg(img, options) on the same image, with
\* removeBackground set either way.  The call creates its own canvas, draws
\* the image again and reads its own copy of the pixels (lines 66-84), which
\* the suppression pass then changes in place (line 97).
Reconvert ==
    /\ pc = "converted"
    /\ Len(calls) < MaxCalls
    /\ \E removeBackground \in BOOLEAN :
         LET opts == [options EXCEPT !.removeBackground = removeBackground]
             size == ScaledSize(image.naturalWidth, image.naturalHeight,
                                opts.cellWidth, opts.maxWidth)
             out == imageToAsciiSvg(canvas.drawn, size.width, size.height, opts)
         IN calls' = Append(calls, [ options |-> opts, width |-> size.width,
                                     height |-> size.height, pixels |-> out.pixels,
                                     result |-> out.result ])
    /\ UNCHANGED <<pc, palette, image, options, canvas, result, animArgs, draws, frames, caller, node, tryIt, hero>>

\* One call of computeBackgroundBrightness(pixels, imgWidth, imgHeight,
\* cellWidth, cellHeight) and one of sampleBackgroundColor(pixels, imgWidth,
\* imgHeight) on a buffer of imgWidth * imgHeight pixels
Estimate ==
    /\ pc = "start"
    /\ \E pixels \in CanvasPixels(image.naturalWidth, image.naturalHeight, palette) :
          /\ canvas' = [ width |-> image.naturalWidth, height |-> image.naturalHeight,
                         drawn |-> pixels, pixels |-> pixels ]
          /\ result' = [ bgBrightness |->
                             computeBackgroundBrightness(
                                 pixels, image.naturalWidth, image.naturalHeight,
                                 options.cellWidth, options.cellHeight),
                         bgColor |->
                             sampleBackgroundColor(
                                 pixels, image.naturalWidth, image.naturalHeight) ]
    /\ pc' = "estimated"
    /\ UNCHANGED <<palette, image, options, animArgs, draws, frames, calls, caller, node, tryIt, hero>>

\* One call of the Node variant on the image of the browser call, with the
\* same explicit options: sharp resizes to the same imgWidth x imgHeight
\* and hands over the same RGBA values the canvas did.
ConvertNode ==
    /\ pc = "converted"
    /\ node = NoValue
    /\ node' = imageToAsciiSvgNode(canvas.drawn, canvas.width, canvas.height, options)
    /\ UNCHANGED <<pc, palette, image, options, canvas, result, animArgs, draws, frames,
                   calls, caller, tryIt, hero>>

Next == Convert
NextEstimate == Estimate
NextVariants == ConvertVariant
NextAnim == Convert \/ Animate
NextCalls == Convert \/ Reconvert
NextNode == Convert \/ ConvertNode

\* conversion of small images under every option combination
Spec == Init /\ [][Next]_vars
\* the downscale step on wide images
SpecScale == InitScale /\ [][Next]_vars
\* conversion followed by animation
SpecAnim == InitAnim /\ [][NextAnim]_vars
\* repeated conversion of one bordered image
SpecCalls == InitCalls /\ [][NextCalls]_vars
\* conversion under configurations outside the caller contract
SpecInvalid == InitInvalid /\ [][Next]_vars
\* the background estimators on their own
SpecEstimate == InitEstimate /\ [][NextEstimate]_vars
\* repeated conversion of one small image with and without suppression
SpecRemoval == InitRemoval /\ [][NextCalls]_vars
\* conversion of very dark cells
SpecBlank == InitBlank /\ [][Next]_vars
\* the browser and the Node variant on the same buffer
SpecNode == InitNode /\ [][NextNode]_vars
\* conversion with and without background suppression
SpecSuppress == InitSuppress /\ [][Next]_vars
\* conversion of pixels at the boundaries of the coverage test
SpecCoverage == InitCoverage /\ [][Next]_vars
\* the browser, Node and command-line variants with options left out
SpecVariants == InitVariants /\ [][NextVariants]_vars


\* ------------------------------------------------------------------------
\* TryItSection (components/landing.tsx).  A handler is taken together with
\* the render it causes and the effects that render runs; the FileReader
\* and Image callbacks and the interval timer are steps of their own, taken
\* in any order.
\* ------------------------------------------------------------------------
\* the images a user may select, with their natural sizes
TryItFiles == {"a.png", "b.png"}
NoFile == "null"     \* imageSrc before the first file was read
NaturalSize(file) == IF file = "a.png" THEN <<24, 18>> ELSE <<12, 36>>

\* the values the controls are moved between
TryItDensities == {6, 4}
TryItColors == {"#d4d4d4", "#00ff00"}
TryItSpeeds == {150, 300}

\* line 266: the frame count passed to createAsciiSvgAnimation
AnimationFrameCount == 8

\* lines 258-264: the options of the call in img.onload
TryItOptions(closure) ==
    [ DefaultOptions EXCEPT !.cellWidth = closure.density,
                            !.cellHeight = (3 * closure.density + 1) \div 2,
                            !.maxWidth = 120,
                            !.color = closure.color,
                            !.removeBackground = closure.removeBackground ]

\* lines 61-81 and 110-111 of lib/ascii.ts: gridCols and gridRows of the
\* base result of the image and settings of the closure
TryItGrid(closure) ==
    LET o == TryItOptions(closure)
        size == ScaledSize(NaturalSize(closure.src)[1], NaturalSize(closure.src)[2],
                           o.cellWidth, o.maxWidth)
    IN [cols |-> size.width \div o.cellWidth, rows |-> size.height \div o.cellHeight]

\* lines 258-267: animationFrames, kept as the image and settings they were
\* computed from and their number.  The number of frames does not depend on
\* the glyphs; it is taken from createAsciiSvgAnimation on a result without
\* glyphs.
TryItFrames(closure) ==
    LET grid == TryItGrid(closure)
        o == TryItOptions(closure)
        svgWidth == grid.cols * o.cellWidth
        svgHeight == grid.rows * o.cellHeight
        noGlyphs == [ svg |-> BuildSvg(svgWidth, svgHeight, o.fontSize, o.color, <<>>),
                      cells |-> <<>>, svgWidth |-> svgWidth, svgHeight |-> svgHeight,
                      gridCols |-> grid.cols, gridRows |-> grid.rows ]
    IN [ from |-> closure,
         length |-> Len(createAsciiSvgAnimation(
                            noGlyphs, AnimationFrameCount, 8, closure.color,
                            [f \in 1..(AnimationFrameCount - 1) |-> <<>>])) ]

\* the values img.onload of the reprocess effect closes over
ClosureOf(s) ==
    [ src |-> s.imageSrc, density |-> s.density, color |-> s.color,
      removeBackground |-> s.removeBackground ]

\* the animation loop effect setting an interval while paused as well
AnimationLoopIgnoringPause(s) ==
    IF s.frames = NoValue \/ s.frames.length <= 1 THEN NoValue
    ELSE [length |-> s.frames.length, speed |-> s.speed]

\* lines 246-252: the interval the animation loop effect leaves behind for
\* the state s: none, or one whose callback closes over frames.length
AnimationLoop(s) ==
    IF s.frames = NoValue \/ ~s.isAnimating \/ s.frames.length <= 1 THEN NoValue
    ELSE [length |-> s.frames.length, speed |-> s.speed]

\* lines 255-272: the reprocess effect after a render in which imageSrc,
\* density, color or removeBackground changed from the ones of state s
Reprocess(s, t) ==
    IF ClosureOf(t) # ClosureOf(s) /\ t.imageSrc # NoFile
    THEN [t EXCEPT !.loads = @ \cup {ClosureOf(t)}]
    ELSE t

\* the state after the handler changed s to t: the render and its effects
Rendered(s, t) ==
    LET u == Reprocess(s, t)
    IN [u EXCEPT !.interval = AnimationLoop(u)]

InitTryIt ==
    /\ pc = "mounted"
    /\ palette = {}
    /\ image = NoValue
    /\ options = NoValue
    /\ canvas = NoValue
    /\ result = NoValue
    /\ animArgs = NoValue
    /\ draws = <<>>
    /\ frames = <<>>
    /\ calls = <<>>
    /\ caller = NoValue
    /\ node = NoValue
    /\ hero = NoValue
    /\ tryIt = [ frames |-> NoValue, dimensions |-> [cols |-> 0, rows |-> 0],
                 currentFrame |-> 0, isAnimating |-> TRUE, density |-> 6,
                 speed |-> 150, imageSrc |-> NoFile, color |-> "#d4d4d4",
                 removeBackground |-> FALSE,
                 reads |-> {},        \* the files whose FileReader is reading
                 loads |-> {},        \* the closures of the Images that are loading
                 interval |-> NoValue,
                 selected |-> NoFile,   \* the file selected last
                 events |-> 0 ]         \* the user events so far

coreVars == <<pc, palette, image, options, canvas, result, animArgs, draws, frames, calls, caller, node>>

\* lines 274-302: handleDrop / handleFileChange with an image file
SelectFile ==
    /\ tryIt.events < MaxEvents
    /\ \E file \in TryItFiles :
          tryIt' = [tryIt EXCEPT !.reads = @ \cup {file}, !.selected = file,
                                 !.events = @ + 1]
    /\ UNCHANGED <<coreVars, hero>>

\* lines 276-278: reader.onload of one of the reads in flight
ReaderLoaded ==
    /\ \E file \in tryIt.reads :
          tryIt' = Rendered(tryIt, [tryIt EXCEPT !.reads = @ \ {file}, !.imageSrc = file])
    /\ UNCHANGED <<coreVars, hero>>

\* lines 257-269: img.onload of one of the loads in flight
ImageLoaded ==
    /\ \E closure \in tryIt.loads :
          tryIt' = Rendered(tryIt, [tryIt EXCEPT !.loads = @ \ {closure},
                                                 !.frames = TryItFrames(closure),
                                                 !.dimensions = TryItGrid(closure),
                                                 !.currentFrame = 0])
    /\ UNCHANGED <<coreVars, hero>>

\* line 392: the density slider, shown once there are frames
SetDensity ==
    /\ tryIt.events < MaxEvents
    /\ tryIt.frames # NoValue
    /\ \E d \in TryItDensities \ {tryIt.density} :
          tryIt' = Rendered(tryIt, [tryIt EXCEPT !.density = d, !.events = @ + 1])
    /\ UNCHANGED <<coreVars, hero>>

\* line 416: the colour input, shown once there are frames
SetColor ==
    /\ tryIt.events < MaxEvents
    /\ tryIt.frames # NoValue
    /\ \E c \in TryItColors \ {tryIt.color} :
          tryIt' = Rendered(tryIt, [tryIt EXCEPT !.color = c, !.events = @ + 1])
    /\ UNCHANGED <<coreVars, hero>>

\* line 372: the background removal checkbox
SetRemoveBackground ==
    /\ tryIt.events < MaxEvents
    /\ tryIt' = Rendered(tryIt, [tryIt EXCEPT !.removeBackground = ~@, !.events = @ + 1])
    /\ UNCHANGED <<coreVars, hero>>

\* line 405: the speed slider, shown once there are frames
SetSpeed ==
    /\ tryIt.events < MaxEvents
    /\ tryIt.frames # NoValue
    /\ \E sp \in TryItSpeeds \ {tryIt.speed} :
          tryIt' = Rendered(tryIt, [tryIt EXCEPT !.speed = sp, !.events = @ + 1])
    /\ UNCHANGED <<coreVars, hero>>

\* line 427: the play / pause button, shown once there are frames
TogglePlay ==
    /\ tryIt.events < MaxEvents
    /\ tryIt.frames # NoValue
    /\ tryIt' = Rendered(tryIt, [tryIt EXCEPT !.isAnimating = ~@, !.events = @ + 1])
    /\ UNCHANGED <<coreVars, hero>>

\* lines 248-250: one firing of the interval
TimerTick ==
    /\ tryIt.interval # NoValue
    /\ tryIt' = Rendered(tryIt, [tryIt EXCEPT !.currentFrame =
                                     (@ + 1) % tryIt.interval.length])
    /\ UNCHANGED <<coreVars, hero>>

NextTryIt ==
    \/ SelectFile \/ ReaderLoaded \/ ImageLoaded
    \/ SetDensity \/ SetColor \/ SetRemoveBackground \/ SetSpeed \/ TogglePlay
    \/ TimerTick

\* the TryItSection component under every order of user events, callbacks
\* and timer ticks
SpecTryIt == InitTryIt /\ [][NextTryIt]_vars

\* ------------------------------------------------------------------------
\* HeroAsciiDemo (components/landing.tsx), with the same granularity: a
\* handler with its render and effects is one step, the completion of the
\* fetch and a firing of the interval are steps of their own.
\* ------------------------------------------------------------------------
\* line 11
SCRAMBLE_CHARS ==
    << "@", "#", "%", "&", "*", "o", "a", "h", "k", "b", "d", "p", "q", "w",
       "m", "Z", "O", "0", "Q", "L", "C", "J", "U", "Y", "X", "z", "c", "v",
       "u", "n", "x", "r", "j", "f", "t", "/", "|", "(", ")", "1", "{", "}",
       "[", "]", "?", "-", "_", "+", "~", "<", ">", "i", "!", "l", "I", ";",
       ":", ",", "\"", "^", Backtick, ".", " " >>

\* the values Math.floor(Math.random() * SCRAMBLE_CHARS.length) is drawn from
ScrambleDraws == {0, 3, Len(SCRAMBLE_CHARS) - 1}

\* the <text> elements of /ascii-hero.svg as the parser returns them
HeroParsed ==
    << [x |-> "0", y |-> "9", char |-> "@"], [x |-> "6", y |-> "9", char |-> "#"],
       [x |-> "12", y |-> "9", char |-> "%"], [x |-> "0", y |-> "18", char |-> "&"] >>

\* the values the hero's density and speed sliders are moved between
HeroDensities == {10, 9, 5, 1}
HeroSpeeds == {300, 100}

\* line 86: Math.max(1, Math.round(11 - density)); the slider gives integers
HeroStep(density) == Max(1, 11 - density)

\* line 87: all.filter((_, i) => i % step === 0), i counted from 0
EveryNth(all, step) ==
    LET kept == { i \in 1..Len(all) : (i - 1) % step = 0 }
    IN [ k \in 1..Cardinality(kept) |-> all[(k - 1) * step + 1] ]

\* lines 93-104: the interval the scramble effect leaves behind once the
\* renders caused by a step are done: none while baseChars is empty
ScrambleLoop(h) ==
    IF Len(h.baseChars) = 0 THEN NoValue ELSE [speed |-> h.speed]

InitHero ==
    /\ pc = "mounted"
    /\ palette = {}
    /\ image = NoValue
    /\ options = NoValue
    /\ canvas = NoValue
    /\ result = NoValue
    /\ animArgs = NoValue
    /\ draws = <<>>
    /\ frames = <<>>
    /\ calls = <<>>
    /\ caller = NoValue
    /\ node = NoValue
    /\ tryIt = NoValue
    /\ hero = [ density |-> 10, speed |-> 300,
                pending |-> TRUE,      \* the fetch of line 58 is in flight
                allChars |-> <<>>, baseChars |-> <<>>, chars |-> <<>>,
                interval |-> NoValue,
                events |-> 0 ]         \* the user events so far

\* lines 59-80: the fetch resolves and the SVG is parsed
HeroFetched ==
    /\ hero.pending
    /\ LET h == [hero EXCEPT !.pending = FALSE, !.allChars = HeroParsed,
                             !.baseChars = HeroParsed, !.chars = HeroParsed]
       IN hero' = [h EXCEPT !.interval = ScrambleLoop(h)]
    /\ UNCHANGED <<coreVars, tryIt>>

\* line 558 and lines 84-90: the density slider and the density effect
HeroSetDensity ==
    /\ hero.events < MaxEvents
    /\ \E d \in HeroDensities \ {hero.density} :
          LET sampled == EveryNth(hero.allChars, HeroStep(d))
              h == IF Len(hero.allChars) = 0
                   THEN [hero EXCEPT !.density = d, !.events = @ + 1]
                   ELSE [hero EXCEPT !.density = d, !.events = @ + 1,
                                     !.baseChars = sampled, !.chars = sampled]
          IN hero' = [h EXCEPT !.interval = ScrambleLoop(h)]
    /\ UNCHANGED <<coreVars, tryIt>>

\* line 571 and lines 93-104: the speed slider and the scramble effect
HeroSetSpeed ==
    /\ hero.events < MaxEvents
    /\ \E sp \in HeroSpeeds \ {hero.speed} :
          LET h == [hero EXCEPT !.speed = sp, !.events = @ + 1]
          IN hero' = [h EXCEPT !.interval = ScrambleLoop(h)]
    /\ UNCHANGED <<coreVars, tryIt>>

\* lines 95-102: one firing of the interval
HeroTick ==
    /\ hero.interval # NoValue
    /\ \E random \in [1..Len(hero.baseChars) -> ScrambleDraws] :
          hero' = [hero EXCEPT !.chars =
                      [ i \in 1..Len(hero.baseChars) |->
                          [hero.baseChars[i] EXCEPT !.char = SCRAMBLE_CHARS[random[i] + 1]] ]]
    /\ UNCHANGED <<coreVars, tryIt>>

NextHero == HeroFetched \/ HeroSetDensity \/ HeroSetSpeed \/ HeroTick

\* the HeroAsciiDemo component under every order of slider changes, fetch
\* completion and timer ticks
SpecHero == InitHero /\ [][NextHero]_vars

\* ------------------------------------------------------------------------
\* Reading the state
\* ------------------------------------------------------------------------
GridCells ==
    IF pc = "converted"
    THEN (0..(result.gridRows - 1)) \X (0..(result.gridCols - 1))
    ELSE {}

\* the background brightness and the statistics the scan computed for the
\* cell rc = <<row, col>> of the converted canvas
BgOfCanvas ==
    computeBackgroundBrightness(canvas.pixels, canvas.width, canvas.height,
                                options.cellWidth, options.cellHeight)
StatsOf(rc) ==
    CellStats(canvas.pixels, canvas.width, canvas.height, options.cellWidth,
              options.cellHeight, BgOfCanvas, rc[1], rc[2])
PassesCoverage(rc) == ~BelowThreshold(StatsOf(rc), options.coverageThreshold)
IndexOfCell(rc) == RampIndex(StatsOf(rc).totalBrightness, StatsOf(rc).totalPixels)

\* the glyphs of the result that sit in cell rc
GlyphsAt(rc) ==
    { i \in 1..Len(result.cells) :
        /\ result.cells[i].x = rc[2] * options.cellWidth
        /\ result.cells[i].y = (rc[1] + 1) * options.cellHeight }

\* every pixel of the buffer has the same R, G and B
Flat(buf) ==
    \A i, j \in DOMAIN buf :
        buf[i].r = buf[j].r /\ buf[i].g = buf[j].g /\ buf[i].b = buf[j].b

Reserved == {"&", "<", ">", "\"", "'"}
AmpEntity  == <<"&", "a", "m", "p", ";">>
LtEntity   == <<"&", "l", "t", ";">>
GtEntity   == <<"&", "g", "t", ";">>
QuotEntity == <<"&", "q", "u", "o", "t", ";">>
AposEntity == <<"&", "a", "p", "o", "s", ";">>
NamedEntities == {AmpEntity, LtEntity, GtEntity, QuotEntity, AposEntity}

EntityOf(ch) ==
    CASE ch = "&"  -> AmpEntity
      [] ch = "<"  -> LtEntity
      [] ch = ">"  -> GtEntity
      [] ch = "\"" -> QuotEntity
      [] ch = "'"  -> AposEntity

\* the character a <text> element shows: its content with a named entity
\* decoded
ShownChar(content) ==
    IF content \in NamedEntities
    THEN CHOOSE ch \in Reserved : EntityOf(ch) = content
    ELSE content[1]

\* the content holds a reserved character that is not the "&" opening a
\* named entity
HasLiteralReserved(content) ==
    \E i \in 1..Len(content) :
        \/ content[i] \in Reserved \ {"&"}
        \/ /\ content[i] = "&"
           /\ ~\E e \in NamedEntities :
                  /\ i + Len(e) - 1 <= Len(content)
                  /\ SubSeq(content, i, i + Len(e) - 1) = e

\* the markup documents of the state: the base result and every frame
Documents ==
    (IF pc \in {"converted", "animated"} THEN {result.svg} ELSE {})
    \cup { frames[f] : f \in 1..Len(frames) }

\* ------------------------------------------------------------------------
\* C1 .. C10
\* ------------------------------------------------------------------------
BlackCornerImage == QuadrantImage(12, 18, <<Black, White, White, White>>)

BlackCornerConverted ==
    /\ pc = "converted"
    /\ options = DefaultOptions
    /\ canvas.width = 12 /\ canvas.height = 18
    /\ canvas.drawn = BlackCornerImage

\* C1: the 12x18 image with a black top-left 6x9 cell and three white cells,
\* converted with the default options, has at least one glyph in cell (0,0),
\* with a character from the dense half of the ramp, and no glyph in any of
\* the three white cells.
C1_BlackCornerScenario ==
    BlackCornerConverted =>
        /\ \E i \in GlyphsAt(<<0, 0>>) :
              indexOf(result.cells[i].char) \in 0..((RampLength \div 2) - 1)
        /\ \A i \in 1..Len(result.cells) : i \in GlyphsAt(<<0, 0>>)

\* C2 as stated: a flat image has coverage 0 in every cell and gets no glyph,
\* for every coverageThreshold in 0..1.
C2_FlatImageNoGlyphs_Original ==
    (pc = "converted" /\ Flat(canvas.drawn)) =>
        /\ \A rc \in GridCells : StatsOf(rc).coveredPixels = 0
        /\ result.cells = <<>>

\* C2 amended: a flat image has coverage 0 in every cell, and gets no glyph
\* whenever coverageThreshold is greater than 0.
C2_FlatImageNoGlyphs ==
    (pc = "converted" /\ Flat(canvas.drawn)) =>
        /\ \A rc \in GridCells : StatsOf(rc).coveredPixels = 0
        /\ options.coverageThreshold.num > 0 => result.cells = <<>>

C2_Witness ==
    /\ pc = "converted"
    /\ Flat(canvas.drawn)
    /\ canvas.drawn[0] = White
    /\ Cardinality(GridCells) >= 2
    /\ options.coverageThreshold.num > 0
    /\ options.removeBackground
    /\ result.cells = <<>>

\* the column count before the downscale, and whether the downscale applies
ColsBefore == image.naturalWidth \div options.cellWidth
Downscaled == pc # "start" /\ ColsBefore > options.maxWidth
ColsAfter == canvas.width \div options.cellWidth

\* C3 as stated: after a downscale the grid has exactly maxWidth columns.
C3_DownscaleExact_Original ==
    Downscaled =>
        /\ ColsAfter = options.maxWidth
        /\ pc = "converted" => result.gridCols = options.maxWidth

\* C3 amended: after a downscale the grid has maxWidth or maxWidth - 1
\* columns, and never more than maxWidth.
C3_DownscaleWithinOne ==
    Downscaled =>
        /\ ColsAfter \in {options.maxWidth - 1, options.maxWidth}
        /\ pc = "converted" => result.gridCols = ColsAfter

C3_Witness ==
    /\ Downscaled
    /\ pc = "converted"
    /\ result.gridCols = options.maxWidth - 1
    /\ image.naturalWidth % options.cellWidth = 0

\* C4: a cell of average luminance 0 is mapped to ramp index 0 ("@") and a
\* cell of average luminance 255 to the last ramp index (the blank).
C4_DarkToDense ==
    \A rc \in GridCells :
        PassesCoverage(rc) =>
            /\ StatsOf(rc).totalBrightness = 0 =>
                  IndexOfCell(rc) = 0 /\ RampAt(IndexOfCell(rc)) = "@"
            /\ StatsOf(rc).totalBrightness = 255000 * StatsOf(rc).totalPixels =>
                  IndexOfCell(rc) = RampLength - 1

\* C5: the ramp index of every cell that passes the coverage test lies in
\* 0..RampLength-1, and every emitted glyph carries a character of the ramp.
C5_RampIndexInRange ==
    /\ \A rc \in GridCells :
          PassesCoverage(rc) =>
              /\ IndexOfCell(rc) \in 0..(RampLength - 1)
              /\ RampAt(IndexOfCell(rc)) # Undefined
    /\ pc = "converted" =>
          \A i \in 1..Len(result.cells) : indexOf(result.cells[i].char) >= 0

C5_Witness ==
    /\ pc = "converted"
    /\ \E rc \in GridCells : PassesCoverage(rc) /\ IndexOfCell(rc) = RampLength - 1
    /\ \E rc \in GridCells : PassesCoverage(rc) /\ IndexOfCell(rc) = 0

\* C6: every frame has as many glyphs as the base result, and glyph i of
\* every frame has the x and y of base glyph i.
C6_FramesKeepPositions ==
    pc = "animated" =>
        \A f \in 1..Len(frames) :
            /\ Len(frames[f].texts) = Len(result.cells)
            /\ \A i \in 1..Len(frames[f].texts) :
                  /\ frames[f].texts[i].x = result.cells[i].x
                  /\ frames[f].texts[i].y = result.cells[i].y

C6_Witness ==
    /\ pc = "animated"
    /\ Len(frames) >= 3
    /\ Len(result.cells) >= 2
    /\ \E i, j \in 1..Len(result.cells) :
          /\ draws[1][i].hit
          /\ ~draws[1][j].hit
          /\ ShownChar(frames[2].texts[i].content) # result.cells[i].char

\* C7: for frameCount N >= 1 the animation has exactly N frames and frame 0
\* is the markup of the base result, whatever the style overrides.
C7_FrameCountAndBase ==
    (pc = "animated" /\ animArgs.frameCount >= 1) =>
        /\ Len(frames) = animArgs.frameCount
        /\ frames[1] = result.svg

C7_Witness ==
    /\ pc = "animated"
    /\ animArgs.frameCount = MaxFrames
    /\ animArgs.fontSize # options.fontSize
    /\ animArgs.color # options.color
    /\ Len(result.cells) >= 1
    /\ frames[1] = result.svg

\* C8: when no base glyph is the blank, no glyph of any frame is the blank;
\* a draw that lands on the blank leaves the glyph's character as it was.
C8_NoGlyphVanishes ==
    (pc = "animated" /\ \A i \in 1..Len(result.cells) : result.cells[i].char # " ") =>
        \A f \in 1..Len(frames) :
            \A i \in 1..Len(frames[f].texts) :
                /\ ShownChar(frames[f].texts[i].content) # " "
                /\ ( /\ f >= 2
                     /\ draws[f - 1][i].hit
                     /\ indexOf(result.cells[i].char) + draws[f - 1][i].shift
                           >= RampLength - 1 )
                   => ShownChar(frames[f].texts[i].content) = result.cells[i].char

C8_Witness ==
    /\ pc = "animated"
    /\ \E i \in 1..Len(result.cells) :
          /\ indexOf(result.cells[i].char) = RampLength - 2
          /\ Len(frames) >= 2
          /\ draws[1][i].hit /\ draws[1][i].shift = 1
          /\ ShownChar(frames[2].texts[i].content) = "."

\* C9: in every frame after the first, the ramp index of each glyph differs
\* from the ramp index of its base character by at most 1.
C9_NoDrift ==
    pc = "animated" =>
        \A f \in 2..Len(frames) :
            \A i \in 1..Len(result.cells) :
                indexOf(result.cells[i].char) >= 0 =>
                    Abs(indexOf(ShownChar(frames[f].texts[i].content))
                        - indexOf(result.cells[i].char)) <= 1

C9_Witness ==
    /\ pc = "animated"
    /\ Len(frames) >= 3
    /\ \E i \in 1..Len(result.cells) :
          /\ draws[1][i].hit /\ draws[2][i].hit
          /\ draws[1][i].shift = -1 /\ draws[2][i].shift = -1
          /\ indexOf(result.cells[i].char) >= 2
          /\ indexOf(ShownChar(frames[3].texts[i].content))
                = indexOf(result.cells[i].char) - 1

\* C10: in the base markup and in every frame, a glyph that is one of
\* & < > " ' is written as its named entity, and no text content holds one
\* of these characters literally.
C10_ReservedEscaped ==
    /\ \A doc \in Documents :
          \A i \in 1..Len(doc.texts) : ~HasLiteralReserved(doc.texts[i].content)
    /\ pc \in {"converted", "animated"} =>
          \A i \in 1..Len(result.cells) :
              result.cells[i].char \in Reserved =>
                  result.svg.texts[i].content = EntityOf(result.cells[i].char)

C10_Witness ==
    /\ pc = "animated"
    /\ \E i \in 1..Len(result.cells) :
          /\ result.cells[i].char = "&"
          /\ result.svg.texts[i].content = AmpEntity
          /\ \E f \in 2..Len(frames) : frames[f].texts[i].content = AmpEntity

\* ------------------------------------------------------------------------
\* C11 .. C20
\* ------------------------------------------------------------------------
\* the coverage ratio of cell rc is at least coverageThreshold
CoverageAtLeastThreshold(rc) ==
    StatsOf(rc).coveredPixels * options.coverageThreshold.den
        >= options.coverageThreshold.num * StatsOf(rc).totalPixels

CoverageEqualsThreshold(rc) ==
    StatsOf(rc).coveredPixels * options.coverageThreshold.den
        = options.coverageThreshold.num * StatsOf(rc).totalPixels

CallLog ==
    IF pc = "converted"
    THEN << [ options |-> options, width |-> canvas.width, height |-> canvas.height,
              pixels |-> canvas.pixels, result |-> result ] >> \o calls
    ELSE <<>>

\* the glyph positions of a result, in glyph order
Positions(r) == [ i \in 1..Len(r.cells) |-> <<r.cells[i].x, r.cells[i].y>> ]

\* pixel (x, y) lies on the edge band or in one of the four corner cells
OnBorder(x, y) ==
    \/ ~( /\ x >= EdgeSize(canvas.width, canvas.height)
          /\ x < canvas.width - EdgeSize(canvas.width, canvas.height)
          /\ y >= EdgeSize(canvas.width, canvas.height)
          /\ y < canvas.height - EdgeSize(canvas.width, canvas.height) )
    \/ /\ (x < options.cellWidth \/ x >= canvas.width - options.cellWidth)
       /\ (y < options.cellHeight \/ y >= canvas.height - options.cellHeight)

CanvasPoints == (0..(canvas.width - 1)) \X (0..(canvas.height - 1))
DrawnAt(c) == canvas.drawn[c[2] * canvas.width + c[1]]
SquaredDistance(p, q) ==
    (p.r - q.r) * (p.r - q.r) + (p.g - q.g) * (p.g - q.g) + (p.b - q.b) * (p.b - q.b)

\* the drawn image is fully opaque, has one colour on its border, and every
\* other pixel differs from that colour's luminance by more than 30
UniformBorderContrastingInterior ==
    /\ pc = "converted"
    /\ \A c \in CanvasPoints :
          /\ DrawnAt(c).a = 255
          /\ IF OnBorder(c[1], c[2])
             THEN DrawnAt(c) = DrawnAt(<<0, 0>>)
             ELSE Abs(Lum(DrawnAt(c)) - Lum(DrawnAt(<<0, 0>>))) > 30000

\* every pixel off the border is at RGB distance 50 or more from the border
\* colour
InteriorFarFromBorder ==
    \A c \in CanvasPoints :
        ~OnBorder(c[1], c[2]) => SquaredDistance(DrawnAt(c), DrawnAt(<<0, 0>>)) >= 2500

\* two calls of the log differ in removeBackground only
DifferInRemovalOnly(i, j) ==
    /\ CallLog[i].options.removeBackground # CallLog[j].options.removeBackground
    /\ CallLog[i].options = [CallLog[j].options EXCEPT !.removeBackground = ~@]

\* C12 as stated: on a fully opaque image with a uniform border whose other
\* pixels differ from the border's luminance by more than 30, the calls with
\* and without removeBackground emit glyphs at the same positions.
C12_RemovalSamePositions_Original ==
    UniformBorderContrastingInterior =>
        \A i, j \in 1..Len(CallLog) :
            DifferInRemovalOnly(i, j) =>
                Positions(CallLog[i].result) = Positions(CallLog[j].result)

\* C12 amended: the same, for images whose other pixels are also at RGB
\* distance 50 or more from the border colour.
C12_RemovalSamePositions ==
    (UniformBorderContrastingInterior /\ InteriorFarFromBorder) =>
        \A i, j \in 1..Len(CallLog) :
            DifferInRemovalOnly(i, j) =>
                Positions(CallLog[i].result) = Positions(CallLog[j].result)

C12_Witness ==
    /\ UniformBorderContrastingInterior
    /\ InteriorFarFromBorder
    /\ \E c \in CanvasPoints : ~OnBorder(c[1], c[2])
    /\ options.coverageThreshold.num > 0
    /\ \E i, j \in 1..Len(CallLog) :
          /\ DifferInRemovalOnly(i, j)
          /\ CallLog[i].options.removeBackground
          /\ CallLog[i].pixels # canvas.drawn
          /\ Positions(CallLog[i].result) = <<<<8, 16>>>>
          /\ Positions(CallLog[j].result) = <<<<8, 16>>>>

InvalidConfiguration ==
    \/ options.cellWidth <= 0
    \/ options.cellHeight <= 0
    \/ options.coverageThreshold = NotANumber

\* C13: a call with an invalid configuration (a cell dimension zero or
\* negative, or a non-numeric coverageThreshold) ends with an error and
\* returns no result.
C13_InvalidConfigurationFails ==
    (pc # "start" /\ InvalidConfiguration) => (pc = "threw" /\ result = NoValue)

\* C14: on a buffer of zero area (width 0 or height 0) with positive cell
\* dimensions, computeBackgroundBrightness returns 128, a number, and
\* sampleBackgroundColor returns white.
C14_ZeroAreaFallback ==
    (pc = "estimated" /\ (canvas.width = 0 \/ canvas.height = 0)) =>
        /\ ~result.bgBrightness.nan
        /\ result.bgBrightness.num = 128 * 1000 * result.bgBrightness.den
        /\ result.bgColor = [r |-> 255, g |-> 255, b |-> 255]

EffectiveSize ==
    ScaledSize(image.naturalWidth, image.naturalHeight,
               options.cellWidth, options.maxWidth)

\* C16: gridCols is floor(effectiveWidth / cellWidth) and gridRows is
\* floor(effectiveHeight / cellHeight), the effective dimensions being those
\* after the optional downscale: a function of the image dimensions,
\* cellWidth, cellHeight and maxWidth alone.
C16_GridDimensions ==
    pc = "converted" =>
        /\ canvas.width = EffectiveSize.width
        /\ canvas.height = EffectiveSize.height
        /\ result.gridCols = EffectiveSize.width \div options.cellWidth
        /\ result.gridRows = EffectiveSize.height \div options.cellHeight

C16_Witness ==
    /\ pc = "converted"
    /\ canvas.width < image.naturalWidth
    /\ options.removeBackground
    /\ options.coverageThreshold = Frac(0, 1)
    /\ result.gridCols = 1 /\ result.gridRows = 1
    /\ Len(result.cells) = 1

\* C17: the markup's width, height and viewBox are gridCols * cellWidth and
\* gridRows * cellHeight, and it has one text element per glyph, in glyph
\* order, with the glyph's x, y and escaped character.
C17_MarkupMatchesGlyphs ==
    pc = "converted" =>
        /\ result.svg.width = result.gridCols * options.cellWidth
        /\ result.svg.height = result.gridRows * options.cellHeight
        /\ result.svg.viewBox = <<0, 0, result.gridCols * options.cellWidth,
                                  result.gridRows * options.cellHeight>>
        /\ result.svgWidth = result.svg.width
        /\ result.svgHeight = result.svg.height
        /\ Len(result.svg.texts) = Len(result.cells)
        /\ \A i \in 1..Len(result.cells) :
              /\ result.svg.texts[i].x = result.cells[i].x
              /\ result.svg.texts[i].y = result.cells[i].y
              /\ result.svg.texts[i].content =
                    IF result.cells[i].char \in Reserved
                    THEN EntityOf(result.cells[i].char)
                    ELSE <<result.cells[i].char>>

C17_Witness ==
    /\ pc = "converted"
    /\ Len(result.cells) >= 3
    /\ \E i, j \in 1..Len(result.cells) :
          /\ result.cells[i].char = "&"
          /\ result.cells[j].char = "@"
          /\ result.svg.texts[i].content = AmpEntity

\* the grid cell a glyph's position belongs to
RowOfGlyph(i) == (result.cells[i].y \div options.cellHeight) - 1
ColOfGlyph(i) == result.cells[i].x \div options.cellWidth

\* C18: every glyph sits at x = col * cellWidth, y = (row + 1) * cellHeight
\* of a grid cell, the cells of the glyphs increase strictly in row-major
\* order, no two glyphs share a position, and there are at most
\* gridCols * gridRows glyphs.
C18_RowMajorOrder ==
    pc = "converted" =>
        /\ \A i \in 1..Len(result.cells) :
              \E rc \in GridCells :
                  /\ result.cells[i].x = rc[2] * options.cellWidth
                  /\ result.cells[i].y = (rc[1] + 1) * options.cellHeight
        /\ \A i, j \in 1..Len(result.cells) :
              i < j =>
                  /\ \/ RowOfGlyph(i) < RowOfGlyph(j)
                     \/ RowOfGlyph(i) = RowOfGlyph(j) /\ ColOfGlyph(i) < ColOfGlyph(j)
                  /\ <<result.cells[i].x, result.cells[i].y>>
                        # <<result.cells[j].x, result.cells[j].y>>
        /\ Len(result.cells) <= result.gridCols * result.gridRows

C18_Witness ==
    /\ pc = "converted"
    /\ result.gridCols = 2 /\ result.gridRows = 2
    /\ Len(result.cells) = 3
    /\ GlyphsAt(<<0, 1>>) = {}

\* the cell height C19 states for a call that gives no cellHeight
StatedCellHeight ==
    IF caller.variant = "browser" THEN 9 ELSE (3 * options.cellWidth + 1) \div 2

\* C19: when the caller gives no cellHeight, the grid rows, the glyph
\* baselines and the markup height are those of cell height
\* round(cellWidth * 1.5) in the Node and command-line variants, and of cell
\* height 9 in the browser variant.
C19_DefaultCellHeight ==
    (pc = "converted" /\ "cellHeight" \notin DOMAIN caller.given) =>
        /\ result.gridRows = canvas.height \div StatedCellHeight
        /\ result.svgHeight = result.gridRows * StatedCellHeight
        /\ result.svg.height = result.gridRows * StatedCellHeight
        /\ \A i \in 1..Len(result.cells) :
              \E row \in 0..(result.gridRows - 1) :
                  result.cells[i].y = (row + 1) * StatedCellHeight

C19_Witness ==
    /\ pc = "converted"
    /\ "cellHeight" \notin DOMAIN caller.given
    /\ caller.variant = "cli"
    /\ options.cellWidth = 3
    /\ result.gridRows = 2
    /\ \E i \in 1..Len(result.cells) : result.cells[i].y = 10

\* C20 as stated: the ramp has 69 characters, the first "@" and the last the
\* only blank, and the three variants use the same ramp.
C20_RampShape_Original ==
    /\ Len(RampOf(caller.variant)) = 69
    /\ RampOf(caller.variant)[1] = "@"
    /\ \A i \in 1..Len(RampOf(caller.variant)) :
          RampOf(caller.variant)[i] = " " <=> i = Len(RampOf(caller.variant))
    /\ \A v \in Variants : RampOf(v) = RampOf(caller.variant)

\* C20 amended: the ramp has 68 characters, the first "@" and the last the
\* only blank, and the three variants use the same ramp.
C20_RampShape ==
    /\ Len(RampOf(caller.variant)) = 68
    /\ RampOf(caller.variant)[1] = "@"
    /\ \A i \in 1..Len(RampOf(caller.variant)) :
          RampOf(caller.variant)[i] = " " <=> i = Len(RampOf(caller.variant))
    /\ \A v \in Variants : RampOf(v) = RampOf(caller.variant)

C20_Witness ==
    /\ pc = "converted"
    /\ caller.variant = "node"
    /\ \E i, j \in GridCells :
          /\ IndexOfCell(i) = 0 /\ Cardinality(GlyphsAt(i)) = 1
          /\ IndexOfCell(j) = Len(RampOf(caller.variant)) - 1 /\ GlyphsAt(j) = {}
    /\ \E i \in 1..Len(result.cells) : result.cells[i].char = RampOf("node")[1]

\* ------------------------------------------------------------------------
\* C21 .. C30
\* ------------------------------------------------------------------------
\* the characters of the ramp
RampChars == { ASCII_RAMP[i] : i \in 1..RampLength }

\* the glyph characters of the state: those of the base result and those
\* shown by the frames
GlyphChars ==
    (IF pc \in {"converted", "animated"}
     THEN { result.cells[i].char : i \in 1..Len(result.cells) } ELSE {})
    \cup UNION { { ShownChar(frames[f].texts[i].content) :
                     i \in 1..Len(frames[f].texts) } : f \in 1..Len(frames) }

\* C21 as stated: the ramp holds none of & < > " ', and no glyph of the
\* conversion or of the animation is one of them.
C21_NoReservedInRamp_Original ==
    /\ RampChars \cap Reserved = {}
    /\ GlyphChars \cap Reserved = {}

\* C21 amended: the ramp holds & < > " and not ', a glyph of the conversion
\* or of the animation may be one of these four, and every text element of
\* such a glyph holds its named entity.
C21_ReservedInRampEscaped ==
    /\ RampChars \cap Reserved = {"&", "<", ">", "\""}
    /\ GlyphChars \subseteq RampChars
    /\ \A doc \in Documents :
          \A i \in 1..Len(doc.texts) :
              \/ doc.texts[i].content \in NamedEntities \ {AposEntity}
              \/ /\ Len(doc.texts[i].content) = 1
                 /\ doc.texts[i].content[1] \in RampChars \ Reserved

C21_Witness ==
    /\ pc = "animated"
    /\ \E i \in 1..Len(result.cells), f \in 2..Len(frames) :
          /\ result.cells[i].char = "&"
          /\ draws[f - 1][i].hit /\ draws[f - 1][i].shift = 1
          /\ frames[f].texts[i].content = <<"$">>
          /\ frames[1].texts[i].content = AmpEntity

\* the pixel positions <<x, y>> of grid cell rc = <<row, col>>
PixelsOfCell(rc) ==
    { p \in CanvasPoints :
        /\ p[1] \in (rc[2] * options.cellWidth)..((rc[2] + 1) * options.cellWidth - 1)
        /\ p[2] \in (rc[1] * options.cellHeight)..((rc[1] + 1) * options.cellHeight - 1) }

\* the pixel the scan reads at position p
ScannedAt(p) == canvas.pixels[p[2] * canvas.width + p[1]]

\* alpha above 128 and luminance more than 30 away from the background
\* brightness, both strictly
StrictlyCovered(p) ==
    /\ ScannedAt(p).a > 128
    /\ ~BgOfCanvas.nan
    /\ Abs(Lum(ScannedAt(p)) * BgOfCanvas.den - BgOfCanvas.num) > 30000 * BgOfCanvas.den

\* the luminance is exactly 30 away from the background brightness
ExactlyThirtyAway(p) ==
    /\ ~BgOfCanvas.nan
    /\ Abs(Lum(ScannedAt(p)) * BgOfCanvas.den - BgOfCanvas.num) = 30000 * BgOfCanvas.den

RECURSIVE LumOver(_)
\* the luminances (thousandths) of the pixels at the positions S, summed
LumOver(S) ==
    IF S = {} THEN 0
    ELSE LET p == CHOOSE q \in S : TRUE
         IN Lum(ScannedAt(p)) + LumOver(S \ {p})

EstimatedBackground == sampleBackgroundColor(canvas.drawn, canvas.width, canvas.height)

\* the square of the Euclidean RGB distance of drawn pixel i to the colour bg
DistanceSquared(i, bg) == SquaredDistance(canvas.drawn[i], bg)

\* C23: with removeBackground = true the suppression sets alpha to 0 for
\* exactly the pixels whose Euclidean RGB distance to the estimated
\* background colour is strictly below 50 and leaves every other alpha and
\* every R, G and B as drawn; with removeBackground = false no pixel is
\* modified.
C23_SuppressionExact ==
    pc = "converted" =>
      LET bg == EstimatedBackground
      IN
        /\ DOMAIN canvas.pixels = DOMAIN canvas.drawn
        /\ \A i \in DOMAIN canvas.drawn :
              /\ canvas.pixels[i].r = canvas.drawn[i].r
              /\ canvas.pixels[i].g = canvas.drawn[i].g
              /\ canvas.pixels[i].b = canvas.drawn[i].b
              /\ canvas.pixels[i].a =
                    IF options.removeBackground /\ DistanceSquared(i, bg) < 50 * 50
                    THEN 0 ELSE canvas.drawn[i].a

\* a suppressing call on a buffer with a visible pixel nearer than 50 to the
\* background colour, which is cleared, one at exactly 50, which keeps its
\* alpha, and the colour is not the one of either
C23_Witness ==
    /\ pc = "converted"
    /\ options.removeBackground
    /\ LET bg == EstimatedBackground
       IN \E i, j \in DOMAIN canvas.drawn :
          /\ DistanceSquared(i, bg) < 50 * 50 /\ DistanceSquared(i, bg) > 0
          /\ canvas.drawn[i].a = 255 /\ canvas.pixels[i].a = 0
          /\ DistanceSquared(j, bg) = 50 * 50
          /\ canvas.drawn[j].a = 255 /\ canvas.pixels[j].a = 255

\* C24: for every image of at least one pixel and positive cell dimensions,
\* images narrower or shorter than one cell included,
\* computeBackgroundBrightness reads only pixels inside the image, and the
\* brightness it returns is a number between 0 and 255.
C24_BackgroundInsideImage ==
    (/\ pc = "estimated"
     /\ canvas.width > 0 /\ canvas.height > 0
     /\ options.cellWidth > 0 /\ options.cellHeight > 0) =>
        /\ ~result.bgBrightness.nan
        /\ result.bgBrightness.num >= 0
        /\ result.bgBrightness.num <= 255 * 1000 * result.bgBrightness.den

\* C25: the browser variant with removeBackground = false and the Node
\* variant, given the same pixel buffer and dimensions and the same explicit
\* cellWidth, cellHeight, maxWidth, coverageThreshold, fontSize and colour,
\* produce the same gridCols and gridRows, the same number of glyphs and the
\* same markup, that is the same characters at the same positions in the
\* same order.
C25_NodeMatchesBrowser ==
    (node # NoValue /\ ~options.removeBackground) =>
        /\ node.gridCols = result.gridCols
        /\ node.gridRows = result.gridRows
        /\ node.cells = Len(result.cells)
        /\ node.svg = result.svg

\* both variants ran without background removal on a buffer that gives at
\* least two glyphs, one of them written as an entity, and leaves a cell out
C25_Witness ==
    /\ node # NoValue
    /\ ~options.removeBackground
    /\ node.cells >= 2
    /\ node.cells < node.gridCols * node.gridRows
    /\ \E i, j \in 1..Len(node.svg.texts) :
          /\ node.svg.texts[i].content = AmpEntity
          /\ node.svg.texts[j].content = <<"@">>

RECURSIVE IsSubsequence(_, _)
\* the sequence a is the sequence b with some of its entries left out
IsSubsequence(a, b) ==
    IF a = <<>> THEN TRUE
    ELSE IF b = <<>> THEN FALSE
    ELSE IF Head(a) = Head(b) THEN IsSubsequence(Tail(a), Tail(b))
    ELSE IsSubsequence(a, Tail(b))

\* C26: background removal can only remove glyphs.  For two calls on the
\* same image whose options differ in removeBackground only, the glyph
\* sequence of the call with removeBackground = true is a subsequence of the
\* other one's: each glyph that survives keeps its character, position and
\* brightness.
C26_RemovalOnlyRemoves ==
    \A i, j \in 1..Len(CallLog) :
        (DifferInRemovalOnly(i, j) /\ CallLog[i].options.removeBackground) =>
            IsSubsequence(CallLog[i].result.cells, CallLog[j].result.cells)

\* an image whose three cells all get a glyph without removal and where
\* removal clears the first two pixels, so that only the third glyph is left
C26_Witness ==
    \E i, j \in 1..Len(CallLog) :
        /\ DifferInRemovalOnly(i, j)
        /\ CallLog[i].options.removeBackground
        /\ Len(CallLog[j].result.cells) = 3
        /\ CallLog[i].result.cells = << CallLog[j].result.cells[3] >>
        /\ CallLog[i].pixels[0].a = 0 /\ CallLog[i].pixels[1].a = 0
        /\ CallLog[j].pixels = canvas.drawn

\* the strictly covered share of the pixels of cell rc reaches
\* coverageThreshold
CoverageReached(rc) ==
    Cardinality({ p \in PixelsOfCell(rc) : StrictlyCovered(p) })
            * options.coverageThreshold.den
        >= options.coverageThreshold.num * Cardinality(PixelsOfCell(rc))

C28_CurrentFrameValid ==
    /\ [](tryIt.frames # NoValue =>
             tryIt.currentFrame \in 0..(tryIt.frames.length - 1))
    /\ [][TimerTick => tryIt.isAnimating]_vars

\* paused on the last frame of an animation that was recomputed after a
\* density change: the timer has advanced to it and is now off
C28_Witness ==
    /\ tryIt.frames # NoValue
    /\ tryIt.frames.from.density # 6
    /\ tryIt.currentFrame = tryIt.frames.length - 1
    /\ ~tryIt.isAnimating
    /\ tryIt.interval = NoValue

\* C29: in TryItSection, once every pending file read and image load has
\* completed, the displayed frames and grid dimensions are those computed
\* from the image selected last and the current density, colour and
\* removeBackground.
C29_LatestResultShown ==
    (tryIt.selected # NoFile /\ tryIt.reads = {} /\ tryIt.loads = {}) =>
        LET latest == [ src |-> tryIt.selected, density |-> tryIt.density,
                        color |-> tryIt.color,
                        removeBackground |-> tryIt.removeBackground ]
        IN /\ tryIt.frames # NoValue
           /\ tryIt.frames.from = latest
           /\ tryIt.dimensions = TryItGrid(latest)

\* C30: in HeroAsciiDemo, at every moment after the hero SVG has been fetched
\* and parsed, the base glyph set is every step-th glyph of the full parsed
\* set, step = max(1, round(11 - density)) for the current density, and the
\* displayed glyphs have the count and the positions of that base set.
C30_BaseIsEveryNth ==
    ~hero.pending =>
        /\ hero.allChars = HeroParsed
        /\ hero.baseChars = EveryNth(hero.allChars, HeroStep(hero.density))
        /\ Len(hero.chars) = Len(hero.baseChars)
        /\ \A i \in 1..Len(hero.chars) :
              /\ hero.chars[i].x = hero.baseChars[i].x
              /\ hero.chars[i].y = hero.baseChars[i].y

====
